---- MODULE Spec2Model ----
(***************************************************************************)
(* A model of python-xpx-chain-sdk (package nem2): the fixed-width integer *)
(* codec of nem2/util/stdint.py, the Address / NetworkType value types of  *)
(* nem2/models, the transaction registries of nem2/models/transaction and  *)
(* the websocket listener of nem2/client/abc.py.                           *)
(*                                                                         *)
(* Python integers are unbounded and signed.  A Python int is modelled by  *)
(* its infinite two's complement expansion in base 256, little endian:     *)
(*   [ext |-> 0 or 255, bytes |-> <<b1, ..., bn>>]                         *)
(* stands for  b1 + b2*256 + ... + bn*256^(n-1) - (IF ext = 255 THEN 256^n)*)
(* and is kept normalised (bn # ext), so that equal integers are equal     *)
(* records.  The bitwise operators of Python (>>, <<, &, |) act on this    *)
(* expansion exactly as CPython defines them for negative operands.        *)
(***************************************************************************)
EXTENDS Integers, Sequences, FiniteSets, TLC

VARIABLES
    call,   \* the last call into stdint: [op, bits, arg]
    ret,    \* its outcome: [ok, val, err]
    acall,  \* the last call of an Address constructor: [op, text, bytes]
    aret,   \* its outcome: [ok, err, obj, rest]
    HOOKS,     \* the registry dicts, by the class that owns the attribute
    imported,  \* how far the import of each transaction module has run
    lookup,    \* the last decode lookup: [cls, type, format, ok, decoder]
    writes,    \* how often each entry of each registry dict was assigned
    looked,    \* a decode lookup has been made
    late,      \* an entry was assigned after a decode lookup
    received,  \* the JSON object the listener received last
    anext,     \* the outcome of Listener.__anext__ on it
    socket,    \* the frames waiting at the websocket, oldest first
    arrived,   \* every frame the server sent, in arrival order
    taken,     \* who read the k-th frame off the socket: "uid" or "anext"
    outcomes,  \* the outcomes of the __anext__ calls, in call order
    _uid,      \* Listener._uid, None until the uid property has set it
    sent,      \* the requests sent on the websocket, in order
    tasks,     \* where each coroutine of the program stands
    tcall,     \* the last call on a transaction or receipt: [op, self, args, data, dto]
    tret,      \* its outcome: [ok, err, obj, bytes, dto], obj the object at hand
    _network_type,  \* HttpBase._network_type of each client, None until resolved
    stack,     \* the calls in progress on the HTTP clients, innermost last
    hret,      \* the value the last call returned
    requests,  \* how many get_network_type requests went to the server
    resolved,  \* how often each client's network_type property asked for the type
    delivered, \* the network type the last NIS callback received
    calls      \* how many calls the program has made

stdintvars == <<call, ret>>
addressvars == <<acall, aret>>
regvars == <<HOOKS, imported, lookup, writes, looked, late>>
listenervars == <<received, anext>>
sessionvars == <<socket, arrived, taken, outcomes, _uid, sent, tasks>>
txvars == <<tcall, tret>>
httpvars == <<_network_type, stack, hret, requests, resolved, delivered, calls>>

vars == <<call, ret, acall, aret, HOOKS, imported, lookup, writes, looked, late, received, anext,
          socket, arrived, taken, outcomes, _uid, sent, tasks, tcall, tret,
          _network_type, stack, hret, requests, resolved, delivered, calls>>

-----------------------------------------------------------------------------
(* Outcomes of a call: a returned value or a raised exception.             *)

Ok(v) == [ok |-> TRUE, val |-> v, err |-> "none"]

Raise(e) == [ok |-> FALSE, val |-> <<>>, err |-> e]

-----------------------------------------------------------------------------
(* Python int.                                                             *)

Max(a, b) == IF a >= b THEN a ELSE b

RECURSIVE Pow2(_)
Pow2(n) == IF n = 0 THEN 1 ELSE 2 * Pow2(n - 1)

RECURSIVE Trim(_, _)
Trim(ext, bs) ==
    IF bs # <<>> /\ bs[Len(bs)] = ext
    THEN Trim(ext, SubSeq(bs, 1, Len(bs) - 1))
    ELSE bs

PyInt(ext, bs) == [ext |-> ext, bytes |-> Trim(ext, bs)]

Small(n) == PyInt(0, <<n>>)

\* Byte i (from 1) of the infinite expansion; 0 below the first byte.
ByteAt(v, i) ==
    IF i < 1 THEN 0
    ELSE IF i <= Len(v.bytes) THEN v.bytes[i] ELSE v.ext

IsNeg(v) == v.ext = 255

\* a > b
RECURSIVE GtFrom(_, _, _)
GtFrom(a, b, i) ==
    IF i = 0 THEN FALSE
    ELSE IF ByteAt(a, i) # ByteAt(b, i) THEN ByteAt(a, i) > ByteAt(b, i)
    ELSE GtFrom(a, b, i - 1)

Gt(a, b) ==
    IF a.ext # b.ext THEN ~IsNeg(a)
    ELSE GtFrom(a, b, Max(Len(a.bytes), Len(b.bytes)))

Le(a, b) == ~Gt(a, b)

\* value >> bits (arithmetic: floor division by 2^bits)
Shr(v, bits) ==
    LET q == bits \div 8
        r == bits % 8
        n == Max(Len(v.bytes) - q, 0)
    IN  PyInt(v.ext,
              [j \in 1..n |->
                  (ByteAt(v, j + q) \div Pow2(r))
                  + (ByteAt(v, j + q + 1) % Pow2(r)) * Pow2(8 - r)])

\* value << bits
Shl(v, bits) ==
    LET q == bits \div 8
        r == bits % 8
        n == Len(v.bytes) + q + 1
    IN  PyInt(v.ext,
              [j \in 1..n |->
                  IF j <= q THEN 0
                  ELSE (ByteAt(v, j - q) % Pow2(8 - r)) * Pow2(r)
                       + (ByteAt(v, j - q - 1) \div Pow2(8 - r))])

RECURSIVE AndBits(_, _, _)
AndBits(x, y, k) ==
    IF k = 0 THEN 0
    ELSE (x % 2) * (y % 2) + 2 * AndBits(x \div 2, y \div 2, k - 1)

AndByte(x, y) == AndBits(x, y, 8)

OrByte(x, y) == x + y - AndByte(x, y)

\* a & b
BitAnd(a, b) ==
    PyInt(AndByte(a.ext, b.ext),
          [j \in 1..Max(Len(a.bytes), Len(b.bytes)) |->
              AndByte(ByteAt(a, j), ByteAt(b, j))])

\* a | b
BitOr(a, b) ==
    PyInt(OrByte(a.ext, b.ext),
          [j \in 1..Max(Len(a.bytes), Len(b.bytes)) |->
              OrByte(ByteAt(a, j), ByteAt(b, j))])

\* int.to_bytes(size, 'little', signed=False)
to_bytes(v, size) ==
    IF IsNeg(v) THEN Raise("OverflowError")
    ELSE IF Len(v.bytes) > size THEN Raise("OverflowError")
    ELSE Ok([i \in 1..size |-> ByteAt(v, i)])

\* int.from_bytes(b, 'little', signed=False)
from_bytes(bs) == PyInt(0, bs)

-----------------------------------------------------------------------------
(* nem2/util/stdint.py                                                     *)

U4_BITS == 4
U8_BITS == 8
U16_BITS == 16
U32_BITS == 32
U64_BITS == 64
U128_BITS == 128

U8_BYTES == U8_BITS \div 8
U16_BYTES == U16_BITS \div 8
U32_BYTES == U32_BITS \div 8
U64_BYTES == U64_BITS \div 8
U128_BYTES == U128_BITS \div 8

AllOnes(n) == PyInt(0, [i \in 1..n |-> 255])

U4_MAX == Small(15)
U8_MAX == AllOnes(1)
U16_MAX == AllOnes(2)
U32_MAX == AllOnes(4)
U64_MAX == AllOnes(8)
U128_MAX == AllOnes(16)

Widths == {U8_BITS, U16_BITS, U32_BITS, U64_BITS, U128_BITS}

\* A variant of high that masks without shifting.
high_unshifted(max, bits, mask, value) ==
    IF Gt(value, max) THEN Raise("OverflowError")
    ELSE Ok(BitAnd(value, mask))

high(max, bits, mask, value) ==
    IF Gt(value, max) THEN Raise("OverflowError")
    ELSE Ok(BitAnd(Shr(value, bits), mask))

low(max, bits, mask, value) ==
    IF Gt(value, max) THEN Raise("OverflowError")
    ELSE Ok(BitAnd(value, mask))

Reverse(bs) == [i \in 1..Len(bs) |-> bs[Len(bs) + 1 - i]]

\* A variant of to_catbuffer_impl that writes the bytes big-endian.
to_catbuffer_impl_big(size, value) ==
    LET r == to_bytes(value, size)
    IN  IF r.ok THEN Ok(Reverse(r.val)) ELSE r

to_catbuffer_impl(size, value) == to_bytes(value, size)

to_catbuffer(bits, value) == to_catbuffer_impl(bits \div 8, value)

\* A variant of from_catbuffer_impl that reads the bytes big-endian.
from_catbuffer_impl_big(bits, catbuffer) == from_bytes(Reverse(catbuffer))

from_catbuffer_impl(bits, catbuffer) == from_bytes(catbuffer)

\* A variant of from_catbuffer that also refuses a buffer of full size.
from_catbuffer_strict(bits, catbuffer) ==
    LET size == bits \div 8
    IN  IF Len(catbuffer) >= size THEN Raise("OverflowError")
        ELSE Ok(from_catbuffer_impl(size, catbuffer))

from_catbuffer(bits, catbuffer) ==
    LET size == bits \div 8
    IN  IF Len(catbuffer) > size THEN Raise("OverflowError")
        ELSE Ok(from_catbuffer_impl(size, catbuffer))

\* UINT8
u8_to_dto(value) == Ok(value)
u8_from_dto(dto) == Ok(dto)
u8_high(value) == high(U8_MAX, U4_BITS, U4_MAX, value)
u8_low(value) == low(U8_MAX, U4_BITS, U4_MAX, value)
u8_to_catbuffer(value) == to_catbuffer(U8_BITS, value)
u8_from_catbuffer(catbuffer) == from_catbuffer(U8_BITS, catbuffer)

\* UINT16
u16_to_dto(value) == Ok(value)
u16_from_dto(dto) == Ok(dto)
u16_high(value) == high(U16_MAX, U8_BITS, U8_MAX, value)
u16_low(value) == low(U16_MAX, U8_BITS, U8_MAX, value)
u16_to_catbuffer(value) == to_catbuffer(U16_BITS, value)
u16_from_catbuffer(catbuffer) == from_catbuffer(U16_BITS, catbuffer)

\* UINT32
u32_to_dto(value) == Ok(value)
u32_from_dto(dto) == Ok(dto)
u32_high(value) == high(U32_MAX, U16_BITS, U16_MAX, value)
u32_low(value) == low(U32_MAX, U16_BITS, U16_MAX, value)
u32_to_catbuffer(value) == to_catbuffer(U32_BITS, value)
u32_from_catbuffer(catbuffer) == from_catbuffer(U32_BITS, catbuffer)

\* UINT64
u64_high(value) == high(U64_MAX, U32_BITS, U32_MAX, value)
u64_low(value) == low(U64_MAX, U32_BITS, U32_MAX, value)
u64_to_catbuffer(value) == to_catbuffer(U64_BITS, value)
u64_from_catbuffer(catbuffer) == from_catbuffer(U64_BITS, catbuffer)

\* A variant of u64_to_dto that lists the high limb first.
u64_to_dto_swapped(value) ==
    IF Gt(value, U64_MAX) THEN Raise("OverflowError")
    ELSE LET lo == u64_low(value)
             hi == u64_high(value)
         IN  IF ~lo.ok THEN lo
             ELSE IF ~hi.ok THEN hi
             ELSE Ok(<<hi.val, lo.val>>)

u64_to_dto(value) ==
    IF Gt(value, U64_MAX) THEN Raise("OverflowError")
    ELSE LET lo == u64_low(value)
             hi == u64_high(value)
         IN  IF ~lo.ok THEN lo
             ELSE IF ~hi.ok THEN hi
             ELSE Ok(<<lo.val, hi.val>>)

\* A variant of u64_from_dto that does not check the second limb.
u64_from_dto_lax(dto) ==
    IF ~(Len(dto) = 2 /\ Le(dto[1], U32_MAX))
    THEN Raise("ArithmeticError")
    ELSE Ok(BitOr(dto[1], Shl(dto[2], U32_BITS)))

u64_from_dto(dto) ==
    IF ~(Len(dto) = 2 /\ Le(dto[1], U32_MAX) /\ Le(dto[2], U32_MAX))
    THEN Raise("ArithmeticError")
    ELSE Ok(BitOr(dto[1], Shl(dto[2], U32_BITS)))

\* UINT128
u128_high(value) == high(U128_MAX, U64_BITS, U64_MAX, value)
u128_low(value) == low(U128_MAX, U64_BITS, U64_MAX, value)
u128_to_catbuffer(value) == to_catbuffer(U128_BITS, value)
u128_from_catbuffer(catbuffer) == from_catbuffer(U128_BITS, catbuffer)

u128_to_dto(value) ==
    IF Gt(value, U128_MAX) THEN Raise("OverflowError")
    ELSE LET lo == u128_low(value)
             hi == u128_high(value)
         IN  IF ~lo.ok THEN lo
             ELSE IF ~hi.ok THEN hi
             ELSE LET dlo == u64_to_dto(lo.val)
                      dhi == u64_to_dto(hi.val)
                  IN  IF ~dlo.ok THEN dlo
                      ELSE IF ~dhi.ok THEN dhi
                      ELSE Ok(<<dlo.val, dhi.val>>)

u128_from_dto(dto) ==
    IF ~(Len(dto) = 2
         /\ (\A i \in 1..Len(dto) : Len(dto[i]) = 2)
         /\ (\A i \in 1..Len(dto[1]) : Le(dto[1][i], U32_MAX))
         /\ (\A i \in 1..Len(dto[2]) : Le(dto[2][i], U32_MAX)))
    THEN Raise("ArithmeticError")
    ELSE LET lo == u64_from_dto(dto[1])
             hi == u64_from_dto(dto[2])
         IN  IF ~lo.ok THEN lo
             ELSE IF ~hi.ok THEN hi
             ELSE Ok(BitOr(lo.val, Shl(hi.val, U64_BITS)))

\* The function named u<bits>_<op> of the module.
to_dto(bits, value) ==
    CASE bits = U8_BITS -> u8_to_dto(value)
      [] bits = U16_BITS -> u16_to_dto(value)
      [] bits = U32_BITS -> u32_to_dto(value)
      [] bits = U64_BITS -> u64_to_dto(value)
      [] bits = U128_BITS -> u128_to_dto(value)

from_dto(bits, dto) ==
    CASE bits = U8_BITS -> u8_from_dto(dto)
      [] bits = U16_BITS -> u16_from_dto(dto)
      [] bits = U32_BITS -> u32_from_dto(dto)
      [] bits = U64_BITS -> u64_from_dto(dto)
      [] bits = U128_BITS -> u128_from_dto(dto)

uW_to_catbuffer(bits, value) ==
    CASE bits = U8_BITS -> u8_to_catbuffer(value)
      [] bits = U16_BITS -> u16_to_catbuffer(value)
      [] bits = U32_BITS -> u32_to_catbuffer(value)
      [] bits = U64_BITS -> u64_to_catbuffer(value)
      [] bits = U128_BITS -> u128_to_catbuffer(value)

uW_from_catbuffer(bits, catbuffer) ==
    CASE bits = U8_BITS -> u8_from_catbuffer(catbuffer)
      [] bits = U16_BITS -> u16_from_catbuffer(catbuffer)
      [] bits = U32_BITS -> u32_from_catbuffer(catbuffer)
      [] bits = U64_BITS -> u64_from_catbuffer(catbuffer)
      [] bits = U128_BITS -> u128_from_catbuffer(catbuffer)

uW_high(bits, value) ==
    CASE bits = U8_BITS -> u8_high(value)
      [] bits = U16_BITS -> u16_high(value)
      [] bits = U32_BITS -> u32_high(value)
      [] bits = U64_BITS -> u64_high(value)
      [] bits = U128_BITS -> u128_high(value)

uW_low(bits, value) ==
    CASE bits = U8_BITS -> u8_low(value)
      [] bits = U16_BITS -> u16_low(value)
      [] bits = U32_BITS -> u32_low(value)
      [] bits = U64_BITS -> u64_low(value)
      [] bits = U128_BITS -> u128_low(value)

-----------------------------------------------------------------------------
(* nem2/models/blockchain/network_type.py.  Characters are their code      *)
(* points; a str or bytes value is the sequence of them.                   *)

MAIN_NET == 104
TEST_NET == 152
MIJIN == 96
MIJIN_TEST == 144

NetworkType == {MAIN_NET, TEST_NET, MIJIN, MIJIN_TEST}

\* b"N", b"T", b"M", b"S"
TO_IDENTIFIER ==
    (MAIN_NET :> <<78>>) @@ (TEST_NET :> <<84>>)
    @@ (MIJIN :> <<77>>) @@ (MIJIN_TEST :> <<83>>)

FROM_IDENTIFIER ==
    (<<78>> :> MAIN_NET) @@ (<<84>> :> TEST_NET)
    @@ (<<77>> :> MIJIN) @@ (<<83>> :> MIJIN_TEST)

\* NetworkType.identifier
NetworkType_identifier(self) == TO_IDENTIFIER[self]

NetworkType_create_from_identifier(identifier) ==
    IF Len(identifier) # 1 THEN Raise("AssertionError")
    ELSE IF identifier \in DOMAIN FROM_IDENTIFIER
         THEN Ok(FROM_IDENTIFIER[identifier])
         ELSE Raise("KeyError")

\* address[0].encode('ascii') raises on a character above 127.
NetworkType_create_from_raw_address(address) ==
    IF Len(address) # 40 THEN Raise("AssertionError")
    ELSE IF address[1] > 127 THEN Raise("UnicodeEncodeError")
    ELSE NetworkType_create_from_identifier(<<address[1]>>)

\* NetworkType.to_dto
NetworkType_to_dto(self) == self

\* NetworkType.from_dto: cls(data), the enumeration member of that value;
\* the enumeration raises ValueError for a value that is no member.
NetworkType_from_dto(data) ==
    IF data \in NetworkType THEN Ok(data) ELSE Raise("ValueError")

-----------------------------------------------------------------------------
(* nem2.util: base32 and the digest.                                       *)

\* The value of a base32 character (A-Z, 2-7), -1 for any other.
B32Value(c) ==
    IF c >= 65 /\ c <= 90 THEN c - 65
    ELSE IF c >= 50 /\ c <= 55 THEN c - 50 + 26
    ELSE -1

B32Char(v) == IF v < 26 THEN 65 + v ELSE 50 + (v - 26)

\* Bit k (from 0, most significant first) of a sequence of width-bit digits.
BitOf(digits, width, k) ==
    (digits[(k \div width) + 1] \div Pow2(width - 1 - (k % width))) % 2

Regroup(digits, from, to) ==
    [i \in 1..((Len(digits) * from) \div to) |->
        LET base == (i - 1) * to
            bit(t) == BitOf(digits, from, base + t) * Pow2(to - 1 - t)
        IN  IF to = 8
            THEN bit(0) + bit(1) + bit(2) + bit(3) + bit(4) + bit(5) + bit(6) + bit(7)
            ELSE bit(0) + bit(1) + bit(2) + bit(3) + bit(4)]

\* util.b32encode of a multiple of 5 bytes: no padding.
b32encode(data) ==
    [i \in 1..((Len(data) * 8) \div 5) |-> B32Char(Regroup(data, 8, 5)[i])]

\* util.b32decode of a multiple of 8 characters.
b32decode(text) ==
    IF \E i \in 1..Len(text) : B32Value(text[i]) < 0
    THEN Raise("binascii.Error")
    ELSE Ok(Regroup([i \in 1..Len(text) |-> B32Value(text[i])], 5, 8))

\* util.hashlib.sha3_256(data).digest(): a 32-byte digest of the data.
RECURSIVE Absorb(_, _, _)
Absorb(data, i, h) ==
    IF i > Len(data) THEN h
    ELSE Absorb(data, i + 1, (h * 31 + data[i] + 7) % 65521)

sha3_256(data) ==
    LET h == Absorb(data, 1, 1)
    IN  [k \in 1..32 |-> ((h + k) * (2 * k + 1)) % 256]

\* util.hashlib.ripemd160(data).digest(): a 20-byte digest of the data.
ripemd160(data) ==
    LET h == Absorb(data, 1, 5)
    IN  [k \in 1..20 |-> ((h + 3 * k) * (2 * k + 3)) % 256]

\* The value of a hexadecimal digit, -1 for any other character.
HexValue(c) ==
    IF c >= 48 /\ c <= 57 THEN c - 48
    ELSE IF c >= 97 /\ c <= 102 THEN c - 87
    ELSE IF c >= 65 /\ c <= 70 THEN c - 55
    ELSE -1

\* util.unhexlify(data, with_prefix=True): a leading "0x" is dropped.
unhexlify(data) ==
    LET t == IF Len(data) >= 2 /\ data[1] = 48 /\ data[2] = 120
             THEN SubSeq(data, 3, Len(data)) ELSE data
    IN  IF Len(t) % 2 # 0 \/ \E i \in 1..Len(t) : HexValue(t[i]) < 0
        THEN Raise("binascii.Error")
        ELSE Ok([i \in 1..(Len(t) \div 2) |->
                    16 * HexValue(t[2 * i - 1]) + HexValue(t[2 * i])])

-----------------------------------------------------------------------------
(* nem2/models/account/address.py                                          *)

calculate_checksum(address) ==
    SubSeq(sha3_256(SubSeq(address, 1, 21)), 1, 4)

\* The address without step 4: the checksum bytes are left zero.
public_key_to_address_unchecked(public_key, network_type) ==
    <<network_type>> \o ripemd160(sha3_256(public_key)) \o <<0, 0, 0, 0>>

public_key_to_address(public_key, network_type) ==
    LET public_key_hash == sha3_256(public_key)
        ripemd_hash == ripemd160(public_key_hash)
        address == <<network_type>> \o ripemd_hash
    IN  address \o calculate_checksum(address)

is_valid_address(address) ==
    calculate_checksum(address) = SubSeq(address, 22, Len(address))

\* str.strip(), str.upper() and str.replace('-', '') on ASCII text.
IsSpace(c) == c \in {9, 10, 11, 12, 13, 32}

RECURSIVE lstrip(_)
lstrip(t) == IF t # <<>> /\ IsSpace(t[1]) THEN lstrip(Tail(t)) ELSE t

RECURSIVE rstrip(_)
rstrip(t) ==
    IF t # <<>> /\ IsSpace(t[Len(t)]) THEN rstrip(SubSeq(t, 1, Len(t) - 1)) ELSE t

strip(t) == rstrip(lstrip(t))

upper(t) == [i \in 1..Len(t) |-> IF t[i] >= 97 /\ t[i] <= 122 THEN t[i] - 32 ELSE t[i]]

replace_dash(t) == SelectSeq(t, LAMBDA c : c # 45)

\* An Address object: its fields _address and _network_type.
AddressObj(address, network_type) ==
    [address |-> address, network_type |-> network_type]

\* Address.__init__
Address(address) ==
    LET plain == replace_dash(upper(strip(address)))
    IN  IF Len(plain) # 40 THEN Raise("ValueError")
        ELSE LET nt == NetworkType_create_from_raw_address(plain)
             IN  IF ~nt.ok THEN nt ELSE Ok(AddressObj(plain, nt.val))

\* Address.encoded (computed on first use)
encoded(self) == b32decode(self.address)

Address_create_from_raw_address(address) == Address(address)

Address_create_from_encoded(address) ==
    IF Len(address) # 25 THEN Raise("ValueError")
    ELSE Address_create_from_raw_address(b32encode(address))

Address_create_from_public_key(public_key, network_type) ==
    LET key == unhexlify(public_key)
    IN  IF ~key.ok THEN key
        ELSE IF Len(key.val) # 32 THEN Raise("ValueError")
        ELSE Address_create_from_encoded(public_key_to_address(key.val, network_type))

\* Address.is_valid
is_valid(self) ==
    LET e == encoded(self)
    IN  IF ~e.ok THEN e ELSE Ok(is_valid_address(e.val))

\* Address.from_dto(data), data the text under the key 'address'.
Address_from_dto(data) == Address_create_from_raw_address(data)

\* Address.to_catbuffer
Address_to_catbuffer(self) == encoded(self)

\* from_catbuffer that hands back the whole input as the bytes left over.
Address_from_catbuffer_keep(data) ==
    IF ~(Len(data) >= 25) THEN Raise("AssertionError")
    ELSE LET inst == Address_create_from_encoded(SubSeq(data, 1, 25))
         IN  IF ~inst.ok THEN inst ELSE Ok(<<inst.val, data>>)

\* Address.from_catbuffer: the instance and the bytes left over.
Address_from_catbuffer(data) ==
    IF ~(Len(data) >= 25) THEN Raise("AssertionError")
    ELSE LET inst == Address_create_from_encoded(SubSeq(data, 1, 25))
         IN  IF ~inst.ok THEN inst
             ELSE Ok(<<inst.val, SubSeq(data, 26, Len(data))>>)

-----------------------------------------------------------------------------
(* The inputs the calls are made with.                                     *)

\* Integers of up to U128_BYTES + ExtraBytes bytes are tried.
ExtraBytes == 1
\* DTO lists of 0..MaxDtoLen elements are tried.
MaxDtoLen == 3

LowBytes == {0, 1, 255}
MidKinds == {"zero", "ones", "ramp"}
TopBytes == {1, 16, 128, 255}

Mid(kind, i) ==
    CASE kind = "zero" -> 0
      [] kind = "ones" -> 255
      [] kind = "ramp" -> (i * 17) % 256

Pattern(len, a, kind, c) ==
    [i \in 1..len |->
        IF i = len THEN c ELSE IF i = 1 THEN a ELSE Mid(kind, i)]

\* Byte strings of 0 .. U128_BYTES + ExtraBytes bytes.
ByteStrings ==
    {Pattern(len, a, k, c) :
        len \in 0..(U128_BYTES + ExtraBytes),
        a \in LowBytes, k \in MidKinds, c \in TopBytes \cup {0}}

\* Integers >= 0: every 8-bit value, and patterns up to beyond 2^128.
NatSamples ==
    {Small(n) : n \in 0..255} \cup {PyInt(0, bs) : bs \in ByteStrings}

\* Integers < 0.
NegSamples ==
    {PyInt(255, Pattern(len, a, k, c)) :
        len \in 0..(U128_BYTES + ExtraBytes),
        a \in LowBytes, k \in {"zero", "ramp"}, c \in {0, 1, 128}}

IntSamples == NatSamples \cup NegSamples

\* 32-bit limbs of a DTO: in range, just out of range, negative.
LimbSamples ==
    {Small(1), PyInt(0, <<2, 3, 5, 128>>), AllOnes(4),
     PyInt(0, <<0, 0, 0, 0, 1>>), PyInt(255, <<>>)}

RECURSIVE SeqsUpTo(_, _)
SeqsUpTo(S, n) ==
    IF n = 0 THEN {<<>>}
    ELSE LET shorter == SeqsUpTo(S, n - 1)
         IN  shorter \cup {Append(s, x) : s \in {t \in shorter : Len(t) = n - 1}, x \in S}

U64DtoSamples == SeqsUpTo(LimbSamples, MaxDtoLen)

\* A few inner lists: well formed, too short, a limb too big, a negative limb.
U64DtoFew ==
    {<<Small(1), AllOnes(4)>>, <<Small(1)>>,
     <<PyInt(0, <<0, 0, 0, 0, 1>>), Small(1)>>, <<Small(1), PyInt(255, <<>>)>>}

\* Lists of lists: every shape of up to MaxDtoLen elements, one inner list
\* drawn from all the 64-bit samples and the others from the few.
U128DtoSamples ==
    {[i \in 1..len |-> IF i = at THEN d0 ELSE d1] :
        len \in 0..MaxDtoLen, at \in 1..2, d0 \in U64DtoSamples, d1 \in U64DtoFew}

DtoSamples(bits) ==
    CASE bits = U64_BITS -> U64DtoSamples
      [] bits = U128_BITS -> U128DtoSamples
      [] OTHER -> IntSamples

-----------------------------------------------------------------------------
(* The transaction registries: nem2/models/transaction.  A registry is the *)
(* class attribute HOOKS, a dict from transaction type to the pair         *)
(* (from_catbuffer_pair, from_dto) of a transaction class.                 *)

\* The classes the registries are reached through, and their bases.
Bases == [Transaction |-> <<>>, InnerTransaction |-> <<"Transaction">>]

\* The attributes a class body assigns.  InnerTransaction only annotates
\* signer; Transaction declares HOOKS.
OwnAttributes == [Transaction |-> {"HOOKS"}, InnerTransaction |-> {}]

\* The class whose attribute cls.attr is: cls, or the first base having it.
RECURSIVE Owner(_, _)
Owner(cls, attr) ==
    IF attr \in OwnAttributes[cls] THEN cls ELSE Owner(Bases[cls][1], attr)

TransactionTypes == {"MOSAIC_ALIAS", "MOSAIC_SUPPLY_CHANGE", "TRANSFER"}

\* A bound class method, and the decoder pair of a transaction class; an
\* entry of a registry is a pair, or empty when the type is not a key.
Method(cls, name) == [cls |-> cls, method |-> name]

NoHook == <<>>

Hooks(cls) == <<Method(cls, "from_catbuffer_pair"), Method(cls, "from_dto")>>

Registries == {Owner(cls, "HOOKS") : cls \in DOMAIN Bases}

\* cls.HOOKS[type] = hooks
SetHook(cls, type, hooks) ==
    LET owner == Owner(cls, "HOOKS")
    IN  /\ HOOKS' = [HOOKS EXCEPT ![owner][type] = hooks]
        /\ writes' = [writes EXCEPT ![owner][type] = @ + 1]
        /\ late' = (late \/ looked)

\* cls.HOOKS[type]
GetHook(cls, type) ==
    LET hooks == HOOKS[Owner(cls, "HOOKS")][type]
    IN  IF hooks = NoHook THEN Raise("KeyError") ELSE Ok(hooks)

\* @register_transaction(name) on a class: the pair of the class goes to
\* the registry of the embedded transactions when the class is one, to the
\* registry of the top-level transactions otherwise.
register_transaction(name, cls, inner) ==
    SetHook(IF inner THEN "InnerTransaction" ELSE "Transaction", name, Hooks(cls))

Modules == {"mosaic_alias_transaction", "mosaic_supply_change_transaction"}

NoLookup == [cls |-> "none", type |-> "none", format |-> "none",
             ok |-> TRUE, decoder |-> Method("", "")]

InitRegistry ==
    /\ HOOKS = [r \in Registries |-> [t \in TransactionTypes |-> NoHook]]
    /\ imported = [m \in Modules |-> "no"]
    /\ lookup = NoLookup
    /\ writes = [r \in Registries |-> [t \in TransactionTypes |-> 0]]
    /\ looked = FALSE
    /\ late = FALSE

-----------------------------------------------------------------------------
(* The listener: nem2/client/abc.py.  A decoded JSON object is modelled by *)
(* the set of its keys and, under the key meta, an object with its own     *)
(* keys and the values of channelName and hash.                            *)

JsonObject(keys, metakeys, channelName, hash) ==
    [keys |-> keys,
     meta |-> [keys |-> metakeys, channelName |-> channelName, hash |-> hash]]

\* A ListenerMessage(channel_name, message): the message is a model object
\* of a type, or the str value of a hash.
ListenerMessage(channel_name, type, value) ==
    [ok |-> TRUE, err |-> "none", channel_name |-> channel_name,
     type |-> type, value |-> value, keys |-> {}]

\* An exception leaving __anext__; the ValueError reports the keys.
ListenerError(err, keys) ==
    [ok |-> FALSE, err |-> err, channel_name |-> "",
     type |-> "", value |-> "", keys |-> keys]

\* models.BlockInfo.from_dto(data)
BlockInfo_from_dto(d) == Ok("BlockInfo")

\* Deadline.from_dto(data['deadline'])
Deadline_from_dto(d) == Ok("Deadline")

\* models.TransactionStatusError.from_dto(data): data['hash'],
\* data['status'] and data['deadline'] are read.
TransactionStatusError_from_dto(d) ==
    IF {"hash", "status", "deadline"} \subseteq d.keys
    THEN (IF Deadline_from_dto(d).ok THEN Ok("TransactionStatusError")
          ELSE Deadline_from_dto(d))
    ELSE Raise("KeyError")

\* models.CosignatureSignedTransaction.from_dto(data): data['parentHash'],
\* data['signature'] and data['signer'] are read.
CosignatureSignedTransaction_from_dto(d) ==
    IF {"parentHash", "signature", "signer"} \subseteq d.keys
    THEN Ok("CosignatureSignedTransaction")
    ELSE Raise("KeyError")

\* The message of a channel made from a decoded model object, or the
\* exception of the decoder.
Decoded(channel_name, r) ==
    IF r.ok THEN ListenerMessage(channel_name, r.val, "")
    ELSE ListenerError(r.err, {})

\* __anext__ that looks for status before block.
Listener_anext_status_first(d) ==
    IF "transaction" \in d.keys
    THEN (IF "meta" \notin d.keys \/ "channelName" \notin d.meta.keys
          THEN ListenerError("KeyError", {})
          ELSE ListenerError("NotImplementedError", {}))
    ELSE IF "status" \in d.keys
    THEN Decoded("status", TransactionStatusError_from_dto(d))
    ELSE IF "block" \in d.keys
    THEN Decoded("block", BlockInfo_from_dto(d))
    ELSE IF "meta" \in d.keys
    THEN (IF {"channelName", "hash"} \subseteq d.meta.keys
          THEN ListenerMessage(d.meta.channelName, "str", d.meta.hash)
          ELSE ListenerError("KeyError", {}))
    ELSE IF "parentHash" \in d.keys
    THEN Decoded("cosignature", CosignatureSignedTransaction_from_dto(d))
    ELSE ListenerError("ValueError", d.keys)

\* __anext__ that returns None for a message it does not know.
Listener_anext_skip(d) ==
    IF d.keys \cap {"transaction", "block", "status", "meta", "parentHash"} = {}
    THEN ListenerMessage("", "None", "")
    ELSE Listener_anext_status_first(d)

\* Listener.__anext__ on the object json.loads returned.
Listener_anext(d) ==
    IF "transaction" \in d.keys
    THEN (IF "meta" \notin d.keys \/ "channelName" \notin d.meta.keys
          THEN ListenerError("KeyError", {})
          ELSE ListenerError("NotImplementedError", {}))
    ELSE IF "block" \in d.keys
    THEN Decoded("block", BlockInfo_from_dto(d))
    ELSE IF "status" \in d.keys
    THEN Decoded("status", TransactionStatusError_from_dto(d))
    ELSE IF "meta" \in d.keys
    THEN (IF {"channelName", "hash"} \subseteq d.meta.keys
          THEN ListenerMessage(d.meta.channelName, "str", d.meta.hash)
          ELSE ListenerError("KeyError", {}))
    ELSE IF "parentHash" \in d.keys
    THEN Decoded("cosignature", CosignatureSignedTransaction_from_dto(d))
    ELSE ListenerError("ValueError", d.keys)

InitListener ==
    /\ received = JsonObject({}, {}, "", "")
    /\ anext = ListenerMessage("", "", "")

\* A frame of the websocket, as json.loads returns it: a JSON object and,
\* under the key uid, the value the server gave.
Frame(d, uid) == [keys |-> d.keys, meta |-> d.meta, uid |-> uid]

\* _uid: typing.Optional[str] = None
None == ""

\* A channel name: f'{name}/{address.address}', or the bare name 'block'.
Channel(name, address) == [name |-> name, address |-> address]

\* The subscription methods of the listener and the channel each passes
\* to subscribe.
Methods ==
    {"new_block", "confirmed", "unconfirmed_added", "unconfirmed_removed",
     "aggregate_bonded_added", "aggregate_bonded_removed", "status",
     "cosignature_added"}

\* Every method subscribes under the name of its own event.
Subscription_own(method, address) ==
    CASE method = "new_block" -> Channel("block", "")
      [] method = "confirmed" -> Channel("confirmedAdded", address)
      [] method = "unconfirmed_added" -> Channel("unconfirmedAdded", address)
      [] method = "unconfirmed_removed" -> Channel("unconfirmedRemoved", address)
      [] method = "aggregate_bonded_added" -> Channel("partialAdded", address)
      [] method = "aggregate_bonded_removed" -> Channel("partialRemoved", address)
      [] method = "status" -> Channel("status", address)
      [] method = "cosignature_added" -> Channel("cosignature", address)

Subscription(method, address) ==
    CASE method = "new_block" -> Channel("block", "")
      [] method = "confirmed" -> Channel("confirmedAdded", address)
      [] method = "unconfirmed_added" -> Channel("confirmedAdded", address)
      [] method = "unconfirmed_removed" -> Channel("unconfirmedRemoved", address)
      [] method = "aggregate_bonded_added" -> Channel("partialAdded", address)
      [] method = "aggregate_bonded_removed" -> Channel("partialRemoved", address)
      [] method = "status" -> Channel("status", address)
      [] method = "cosignature_added" -> Channel("cosignature", address)

\* json.dumps({'uid': uid, request: channel}), request being 'subscribe'
\* or 'unsubscribe'.
Request(uid, request, channel) ==
    [uid |-> uid, request |-> request, channel |-> channel]

\* The coroutines of the program that use the listener.
NumTasks == 2

Tasks == 1 .. NumTasks

\* A request on the websocket, and the method of the listener that made it.
Sent(method, message) == [method |-> method, message |-> message]

\* A coroutine that is not inside subscribe or unsubscribe.
NoTask == [pc |-> "idle", method |-> "", request |-> "", channel |-> Channel("", "")]

InitSession ==
    /\ socket = <<>>
    /\ arrived = <<>>
    /\ taken = <<>>
    /\ outcomes = <<>>
    /\ _uid = None
    /\ sent = <<>>
    /\ tasks = [t \in Tasks |-> NoTask]

-----------------------------------------------------------------------------
(* The transactions: nem2/models/transaction.  The value of a field is the *)
(* class of the object it holds and, for an int or an object that wraps    *)
(* one, the integer.                                                       *)

Val(type, int) == [type |-> type, int |-> int]

PyNone == Val("NoneType", Small(0))

\* A field no _set has written yet.
Unset == Val("unset", Small(0))

\* int(x): defined for an int, an IntEnum member and the identifiers.
int(v) ==
    IF v.type \in {"int", "MosaicSupplyType", "AliasActionType", "MosaicId", "NamespaceId"}
    THEN Ok(v.int)
    ELSE Raise("TypeError")

\* data[i:j] and data[i:] of a bytes object, i and j counted from 0.
Slice(data, i, j) ==
    IF i >= Len(data) THEN <<>>
    ELSE SubSeq(data, i + 1, IF j < Len(data) THEN j ELSE Len(data))

SliceFrom(data, i) == Slice(data, i, Len(data))

TransactionVersion_MOSAIC_SUPPLY_CHANGE == 2
TransactionVersion_MOSAIC_ALIAS == 1

\* Transaction.__init__: the fields every transaction has.  All model
\* objects share one record shape; a receipt uses account and amount.
Transaction(cls, type, network_type, version, deadline, max_fee, signature, signer) ==
    [cls |-> cls, type |-> type, network_type |-> network_type,
     version |-> version, deadline |-> deadline, max_fee |-> max_fee,
     signature |-> signature, signer |-> signer,
     mosaic_id |-> Unset, direction |-> Unset, delta |-> Unset,
     action_type |-> Unset, namespace_id |-> Unset,
     account |-> "", amount |-> Unset, inner_transactions |-> <<>>]

\* An object made by cls.__new__(cls), before any field is loaded.
Blank(cls, type) == Transaction(cls, type, 0, 0, 0, Unset, "", "")

\* The outcome of a call on a transaction: the exception or the object,
\* the bytes or the bytes left over, and the DTO.
NoDto ==
    [keys |-> {}, mosaicId |-> <<>>, mosaic |-> <<>>, direction |-> Small(0),
     delta |-> <<>>, amount |-> <<>>, account |-> ""]

TOutcome(r, obj, bytes, dto) ==
    [ok |-> r.ok, err |-> r.err, obj |-> obj,
     bytes |-> IF r.ok THEN bytes ELSE <<>>,
     dto |-> IF r.ok THEN dto ELSE NoDto]

\* MosaicSupplyType: DECREASE = 0, INCREASE = 1, one byte in a catbuffer.
MosaicSupplyType == {0, 1}

MosaicSupplyType_new(value) ==
    IF \E m \in MosaicSupplyType : value = Small(m)
    THEN Ok(Val("MosaicSupplyType", value))
    ELSE Raise("ValueError")

MosaicSupplyType_to_catbuffer(self) ==
    IF self.type = "MosaicSupplyType" THEN u8_to_catbuffer(self.int)
    ELSE Raise("AttributeError")

MosaicSupplyType_create_from_catbuffer(data) ==
    LET v == u8_from_catbuffer(Slice(data, 0, 1))
    IN  IF v.ok THEN MosaicSupplyType_new(v.val) ELSE v

MosaicSupplyType_to_dto(self) ==
    IF self.type = "MosaicSupplyType" THEN u8_to_dto(self.int)
    ELSE Raise("AttributeError")

MosaicSupplyType_create_from_dto(data) ==
    LET v == u8_from_dto(data)
    IN  IF v.ok THEN MosaicSupplyType_new(v.val) ELSE v

\* util.u64_to_catbuffer(value) calls value.to_bytes, which an int and an
\* IntEnum member have.
u64_to_catbuffer_of(v) ==
    IF v.type \in {"int", "MosaicSupplyType", "AliasActionType"}
    THEN u64_to_catbuffer(v.int)
    ELSE Raise("AttributeError")

\* util.u64_to_dto(value) compares and shifts value as an int.
u64_to_dto_of(v) ==
    IF v.type \in {"int", "MosaicSupplyType", "AliasActionType"}
    THEN u64_to_dto(v.int)
    ELSE Raise("TypeError")

\* MosaicSupplyChangeTransaction.__init__, its parameters in their order
\* (fee_strategy and transaction_info left at their defaults).
MosaicSupplyChangeTransaction(network_type, version, deadline, mosaic_id, direction, delta, max_fee, signature, signer) ==
    [Transaction("MosaicSupplyChangeTransaction", "MOSAIC_SUPPLY_CHANGE",
                 network_type, version, deadline, max_fee, signature, signer)
        EXCEPT !.mosaic_id = mosaic_id, !.direction = direction, !.delta = delta]

\* MosaicSupplyChangeTransaction.create: cls(network_type, version,
\* deadline, direction, delta, max_fee, mosaic_id), positionally.
MosaicSupplyChangeTransaction_create(deadline, mosaic_id, direction, delta, network_type, max_fee) ==
    MosaicSupplyChangeTransaction(network_type,
                                  TransactionVersion_MOSAIC_SUPPLY_CHANGE,
                                  deadline, direction, delta, max_fee,
                                  mosaic_id, "", "")

MosaicSupplyChangeTransaction_catbuffer_size_specific == U64_BYTES + 1 + U64_BYTES

MosaicSupplyChangeTransaction_to_catbuffer_specific(self) ==
    LET i == int(self.mosaic_id)
        mosaic_id == IF i.ok THEN u64_to_catbuffer(i.val) ELSE i
        direction == MosaicSupplyType_to_catbuffer(self.direction)
        delta == u64_to_catbuffer_of(self.delta)
    IN  IF ~mosaic_id.ok THEN mosaic_id
        ELSE IF ~direction.ok THEN direction
        ELSE IF ~delta.ok THEN delta
        ELSE Ok(mosaic_id.val \o direction.val \o delta.val)

\* load_catbuffer_specific: the object after the call and the bytes left.
MosaicSupplyChangeTransaction_load_catbuffer_specific(self, data) ==
    LET mosaic_id == u64_from_catbuffer(Slice(data, 0, 8))
        direction == MosaicSupplyType_create_from_catbuffer(Slice(data, 8, 9))
        delta == u64_from_catbuffer(Slice(data, 9, 17))
    IN  IF ~mosaic_id.ok THEN TOutcome(mosaic_id, self, <<>>, NoDto)
        ELSE IF ~direction.ok THEN TOutcome(direction, self, <<>>, NoDto)
        ELSE IF ~delta.ok THEN TOutcome(delta, self, <<>>, NoDto)
        ELSE TOutcome(Ok(0),
                      [self EXCEPT !.mosaic_id = Val("MosaicId", mosaic_id.val),
                                   !.direction = direction.val,
                                   !.delta = Val("int", delta.val)],
                      SliceFrom(data, 17), NoDto)

\* validate_dto_required(data, required_keys)
validate_dto_required(data, required_keys) == required_keys \subseteq data.keys

MosaicSupplyChangeTransaction_validate_dto_specific(data) ==
    validate_dto_required(data, {"mosaicId", "direction", "delta"})

MosaicSupplyChangeTransaction_to_dto_specific(self) ==
    LET i == int(self.mosaic_id)
        mosaicId == IF i.ok THEN u64_to_dto(i.val) ELSE i
        direction == MosaicSupplyType_to_dto(self.direction)
        delta == u64_to_dto_of(self.delta)
    IN  IF ~mosaicId.ok THEN mosaicId
        ELSE IF ~direction.ok THEN direction
        ELSE IF ~delta.ok THEN delta
        ELSE Ok([NoDto EXCEPT !.keys = {"mosaicId", "direction", "delta"},
                              !.mosaicId = mosaicId.val,
                              !.direction = direction.val,
                              !.delta = delta.val])

MosaicSupplyChangeTransaction_load_dto_specific(self, data) ==
    IF "mosaicId" \notin data.keys THEN TOutcome(Raise("KeyError"), self, <<>>, NoDto)
    ELSE LET mosaic_id == u64_from_dto(data.mosaicId)
         IN  IF ~mosaic_id.ok THEN TOutcome(mosaic_id, self, <<>>, NoDto)
    ELSE IF "direction" \notin data.keys THEN TOutcome(Raise("KeyError"), self, <<>>, NoDto)
    ELSE LET direction == MosaicSupplyType_create_from_dto(data.direction)
         IN  IF ~direction.ok THEN TOutcome(direction, self, <<>>, NoDto)
    ELSE IF "delta" \notin data.keys THEN TOutcome(Raise("KeyError"), self, <<>>, NoDto)
    ELSE LET delta == u64_from_dto(data.delta)
         IN  IF ~delta.ok THEN TOutcome(delta, self, <<>>, NoDto)
    ELSE TOutcome(Ok(0),
                  [self EXCEPT !.mosaic_id = Val("MosaicId", mosaic_id.val),
                               !.direction = direction.val,
                               !.delta = Val("int", delta.val)],
                  <<>>, NoDto)

\* BalanceChangeReceipt.__init__
BalanceChangeReceipt(network_type, version, account, mosaic_id, amount) ==
    [Transaction("BalanceChangeReceipt", "BALANCE_CHANGE", network_type,
                 version, 0, Unset, "", "")
        EXCEPT !.account = account, !.mosaic_id = mosaic_id, !.amount = amount]

BalanceChangeReceipt_validate_dto_specific(data) ==
    validate_dto_required(data, {"account", "mosaicId", "amount"})

\* Recipient.to_dto gives the account in its encoded form.
BalanceChangeReceipt_to_dto_specific(self) ==
    LET mosaic == u64_to_dto_of(self.mosaic_id)
        amount == u64_to_dto_of(self.amount)
    IN  IF ~mosaic.ok THEN mosaic
        ELSE IF ~amount.ok THEN amount
        ELSE Ok([NoDto EXCEPT !.keys = {"account", "mosaic", "amount"},
                              !.account = self.account,
                              !.mosaic = mosaic.val,
                              !.amount = amount.val])

BalanceChangeReceipt_load_dto_specific(self, data) ==
    IF "account" \notin data.keys THEN TOutcome(Raise("KeyError"), self, <<>>, NoDto)
    ELSE IF "mosaicId" \notin data.keys THEN TOutcome(Raise("KeyError"), self, <<>>, NoDto)
    ELSE LET mosaic_id == u64_from_dto(data.mosaicId)
         IN  IF ~mosaic_id.ok THEN TOutcome(mosaic_id, self, <<>>, NoDto)
    ELSE IF "amount" \notin data.keys THEN TOutcome(Raise("KeyError"), self, <<>>, NoDto)
    ELSE LET amount == u64_from_dto(data.amount)
         IN  IF ~amount.ok THEN TOutcome(amount, self, <<>>, NoDto)
    ELSE TOutcome(Ok(0),
                  [self EXCEPT !.account = data.account,
                               !.mosaic_id = Val("int", mosaic_id.val),
                               !.amount = Val("int", amount.val)],
                  <<>>, NoDto)

\* AliasActionType: LINK = 0, UNLINK = 1, CATBUFFER_SIZE = 1.
AliasActionType == {0, 1}

\* struct.pack('<B', int(self))
AliasActionType_to_catbuffer(self) ==
    IF self.type = "AliasActionType" THEN Ok(<<ByteAt(self.int, 1)>>)
    ELSE Raise("AttributeError")

\* The instance and the bytes left, in val and rest.
AliasActionType_from_catbuffer(data) ==
    IF ~(Len(data) >= 1) THEN [Raise("AssertionError") EXCEPT !.val = Unset] @@ [rest |-> <<>>]
    ELSE IF data[1] \notin AliasActionType
    THEN [Raise("ValueError") EXCEPT !.val = Unset] @@ [rest |-> <<>>]
    ELSE Ok(Val("AliasActionType", PyInt(0, <<data[1]>>))) @@ [rest |-> SliceFrom(data, 1)]

\* NamespaceId and MosaicId: a 64-bit integer, CATBUFFER_SIZE = 8.
Id_to_catbuffer(self) ==
    IF self.type \in {"NamespaceId", "MosaicId"} THEN u64_to_catbuffer(self.int)
    ELSE Raise("AttributeError")

Id_from_catbuffer(cls, data) ==
    IF ~(Len(data) >= U64_BYTES) THEN [Raise("AssertionError") EXCEPT !.val = Unset] @@ [rest |-> <<>>]
    ELSE Ok(Val(cls, u64_from_catbuffer(Slice(data, 0, U64_BYTES)).val))
             @@ [rest |-> SliceFrom(data, U64_BYTES)]

\* MosaicAliasTransaction.__init__ (transaction_info left at its default).
MosaicAliasTransaction(network_type, version, deadline, fee, action_type, namespace_id, mosaic_id, signature, signer) ==
    [Transaction("MosaicAliasTransaction", "MOSAIC_ALIAS", network_type,
                 version, deadline, fee, signature, signer)
        EXCEPT !.action_type = action_type, !.namespace_id = namespace_id,
               !.mosaic_id = mosaic_id]

MosaicAliasTransaction_create(deadline, action_type, namespace_id, mosaic_id, network_type) ==
    MosaicAliasTransaction(network_type, TransactionVersion_MOSAIC_ALIAS,
                           deadline, Val("int", Small(0)), action_type,
                           namespace_id, mosaic_id, "", "")

MosaicAliasTransaction_catbuffer_size_specific == 1 + U64_BYTES + U64_BYTES

MosaicAliasTransaction_to_catbuffer_specific(self) ==
    LET action_type == AliasActionType_to_catbuffer(self.action_type)
        namespace_id == Id_to_catbuffer(self.namespace_id)
        mosaic_id == Id_to_catbuffer(self.mosaic_id)
    IN  IF ~action_type.ok THEN action_type
        ELSE IF ~namespace_id.ok THEN namespace_id
        ELSE IF ~mosaic_id.ok THEN mosaic_id
        ELSE Ok(action_type.val \o namespace_id.val \o mosaic_id.val)

MosaicAliasTransaction_load_catbuffer_specific(self, data) ==
    LET action_type == AliasActionType_from_catbuffer(data)
        namespace_id == Id_from_catbuffer("NamespaceId", action_type.rest)
        mosaic_id == Id_from_catbuffer("MosaicId", namespace_id.rest)
    IN  IF ~action_type.ok THEN TOutcome(action_type, self, <<>>, NoDto)
        ELSE IF ~namespace_id.ok THEN TOutcome(namespace_id, self, <<>>, NoDto)
        ELSE IF ~mosaic_id.ok THEN TOutcome(mosaic_id, self, <<>>, NoDto)
        ELSE TOutcome(Ok(0),
                      [self EXCEPT !.action_type = action_type.val,
                                   !.namespace_id = namespace_id.val,
                                   !.mosaic_id = mosaic_id.val],
                      mosaic_id.rest, NoDto)

\* cls.from_transaction(transaction, signer): the fields of the
\* transaction in an object of the embedded class, with the signer and
\* without a signature.
from_transaction(cls, transaction, signer) ==
    [transaction EXCEPT !.cls = cls, !.signature = "", !.signer = signer]

\* to_aggregate that keeps the class of the transaction.
MosaicAliasTransaction_to_aggregate_same(self, signer) ==
    from_transaction(self.cls, self, self.signer)

MosaicAliasTransaction_to_aggregate(self, signer) ==
    from_transaction("MosaicAliasInnerTransaction", self, signer)

\* The aggregate transaction, after section 4.6 of the specification:
\* [common header][payload_size:u32][inner transactions...][cosignature:
\* (32-byte public_key + 64-byte signature) per cosigner].

\* The public key of an account, as bytes.
PublicKey(signer) ==
    IF signer = "1B153F8B76EF60A4BFE152F4DE3698BD230BAC9DC239D4E448715CA46F6EEC6A"
    THEN [i \in 1 .. 32 |-> (53 + i * 29) % 256]
    ELSE [i \in 1 .. 32 |-> (106 + i * 29) % 256]

\* A number that depends on every byte of the data.
RECURSIVE Mix(_, _, _)
Mix(data, lo, hi) ==
    IF lo > hi THEN 1
    ELSE IF lo = hi THEN data[lo] + 7
    ELSE (Mix(data, lo, (lo + hi) \div 2) * 31
          + Mix(data, (lo + hi) \div 2 + 1, hi)) % 65521

\* The hash of a transaction: 32 bytes.
Hash(data) == [k \in 1 .. 32 |-> ((Mix(data, 1, Len(data)) + k) * (2 * k + 1)) % 256]

\* account.sign(data): a 64-byte signature.
Sign(signer, data) ==
    LET h == Mix(PublicKey(signer) \o data, 1, 32 + Len(data))
    IN  [k \in 1 .. 64 |-> ((h + 3 * k) * (2 * k + 5)) % 256]

\* An integer below 2^16 as a Python int.
FromNat(n) == PyInt(0, <<n % 256, n \div 256>>)

\* The entity type on the wire, two bytes.
TypeBytes(type) ==
    IF type = "MOSAIC_ALIAS" THEN <<78, 67>>
    ELSE IF type = "MOSAIC_SUPPLY_CHANGE" THEN <<77, 66>>
    ELSE <<65, 65>>

\* An inner transaction in its embedded form, prefixed by its own size:
\* size, signer, version, type, and the bytes of the variant.
Embedded(tx) ==
    LET body == PublicKey(tx.signer) \o <<tx.version, tx.network_type>>
                \o TypeBytes(tx.type)
                \o MosaicAliasTransaction_to_catbuffer_specific(tx).val
    IN  u32_to_catbuffer(FromNat(4 + Len(body))).val \o body

RECURSIVE Concat(_)
Concat(seqs) == IF seqs = <<>> THEN <<>> ELSE Head(seqs) \o Concat(Tail(seqs))

\* AggregateTransaction.create_complete(deadline, inner_transactions,
\* network_type)
create_complete(deadline, inner_transactions, network_type) ==
    [Transaction("AggregateTransaction", "AGGREGATE_COMPLETE", network_type,
                 2, deadline, PyNone, "", "")
        EXCEPT !.inner_transactions = inner_transactions]

\* The inner transactions of an aggregate, encoded, last one first.
InnerBlock_reversed(self) ==
    Concat([k \in 1 .. Len(self.inner_transactions) |->
               Embedded(self.inner_transactions[Len(self.inner_transactions) + 1 - k])])

\* The inner transactions of an aggregate, encoded in their order.
InnerBlock(self) ==
    Concat([k \in 1 .. Len(self.inner_transactions) |->
               Embedded(self.inner_transactions[k])])

\* The bytes the signatures are made over: everything after the size,
\* signature and signer of the header.
SigningBytes(self) ==
    <<self.version, self.network_type>> \o TypeBytes(self.type)
    \o u64_to_catbuffer(Small(0)).val
    \o u64_to_catbuffer(FromNat(self.deadline)).val
    \o u32_to_catbuffer(FromNat(Len(InnerBlock(self)))).val
    \o InnerBlock(self)

\* aggregate.sign_transaction_with_cosignatories(signer, *cosigners,
\* gen_hash): the signed payload.
sign_transaction_with_cosignatories(self, signer, cosigners, gen_hash) ==
    LET body == SigningBytes(self)
        signature == Sign(signer, gen_hash \o body)
        hash == Hash(signature \o PublicKey(signer) \o gen_hash \o body)
        cosignatures == Concat([k \in 1 .. Len(cosigners) |->
                                   PublicKey(cosigners[k]) \o Sign(cosigners[k], hash)])
        size == 4 + 64 + 32 + Len(body) + Len(cosignatures)
    IN  u32_to_catbuffer(FromNat(size)).val \o signature \o PublicKey(signer)
        \o body \o cosignatures

\* The arguments of a call, by parameter name.
NoArgs ==
    [deadline |-> 0, network_type |-> 0, max_fee |-> Unset, signer |-> "",
     mosaic_id |-> Unset, direction |-> Unset, delta |-> Unset,
     action_type |-> Unset, namespace_id |-> Unset, cosigners |-> <<>>]

NoTx == Blank("none", "none")

TCall(op, self, args, data, dto) ==
    [op |-> op, self |-> self, args |-> args, data |-> data, dto |-> dto]

InitTransaction ==
    /\ tcall = TCall("none", NoTx, NoArgs, <<>>, NoDto)
    /\ tret = TOutcome(Ok(0), NoTx, <<>>, NoDto)

-----------------------------------------------------------------------------
(* The HTTP clients: nem2/client/abc.py.  A call in progress is a frame    *)
(* [fn, client, kwds, network_type, pc]; kwds tells whether the keyword    *)
(* network_type was passed and its value.                                  *)

\* _network_type: typing.Optional[models.NetworkType] = None
NoNetworkType == 0

Clients == {"http", "account", "network"}

Kwds(given, network_type) == [given |-> given, network_type |-> network_type]

HFrame(fn, client, cb, kwds, pc) ==
    [fn |-> fn, client |-> client, cb |-> cb, kwds |-> kwds,
     network_type |-> NoNetworkType, pc |-> pc]

\* self.root.network: the NetworkHttp to the same endpoint.
root_network(client) == "network"

\* get_network_type that passes no network_type.
get_network_type_implicit(client) ==
    HFrame("__call__", client, "nis.get_network_type", Kwds(FALSE, NoNetworkType), "start")

\* NetworkHttp.get_network_type: the call
\* self(nis.get_network_type, network_type=self._none).
get_network_type(client) ==
    HFrame("__call__", client, "nis.get_network_type", Kwds(TRUE, NoNetworkType), "start")

NoDelivery == [client |-> "", cb |-> "", kwds |-> Kwds(FALSE, NoNetworkType),
               network_type |-> NoNetworkType]

InitHttp ==
    /\ _network_type = [c \in Clients |-> NoNetworkType]
    /\ stack = <<>>
    /\ hret = NoNetworkType
    /\ requests = 0
    /\ resolved = [c \in Clients |-> 0]
    /\ delivered = NoDelivery
    /\ calls = 0

-----------------------------------------------------------------------------
(* The calls.  A value held in the state is one of: an integer, a byte     *)
(* string, a 64-bit DTO (a list of integers), a 128-bit DTO (a list of     *)
(* lists); the record keeps one field per kind.                            *)

NoVal == [int |-> Small(0), bytes |-> <<>>, dto64 |-> <<>>, dto128 |-> <<>>]

AsInt(v) == [NoVal EXCEPT !.int = v]
AsBytes(b) == [NoVal EXCEPT !.bytes = b]
AsDto64(d) == [NoVal EXCEPT !.dto64 = d]
AsDto128(d) == [NoVal EXCEPT !.dto128 = d]

\* A DTO of the width: an integer up to 32 bits, a list from 64 bits on.
AsDto(bits, d) ==
    CASE bits = U64_BITS -> AsDto64(d)
      [] bits = U128_BITS -> AsDto128(d)
      [] OTHER -> AsInt(d)

DtoOf(bits, v) ==
    CASE bits = U64_BITS -> v.dto64
      [] bits = U128_BITS -> v.dto128
      [] OTHER -> v.int

Call(op, bits, arg) == [op |-> op, bits |-> bits, arg |-> arg]

\* The outcome r of a call, its value stored by As.
Outcome(r, As(_)) ==
    [ok |-> r.ok, err |-> r.err, val |-> IF r.ok THEN As(r.val) ELSE NoVal]

\* An Address constructor's call and outcome.
ACall(op, text, bytes) == [op |-> op, text |-> text, bytes |-> bytes, nt |-> 0]

\* A call that takes a text and a network type.
ACallNt(op, text, network_type) ==
    [op |-> op, text |-> text, bytes |-> <<>>, nt |-> network_type]

NoAddress == [address |-> <<>>, network_type |-> 0]

AOutcome(r, obj, rest) ==
    [ok |-> r.ok, err |-> r.err,
     obj |-> IF r.ok THEN obj ELSE NoAddress,
     rest |-> IF r.ok THEN rest ELSE <<>>]

\* No call is in progress: the program makes one call at a time.
Idle == call.op = "none" /\ acall.op = "none"

Init ==
    /\ call = Call("none", 0, NoVal)
    /\ ret = Outcome(Ok(0), LAMBDA x : NoVal)
    /\ acall = ACall("none", <<>>, <<>>)
    /\ aret = AOutcome(Ok(0), NoAddress, <<>>)
    /\ InitRegistry
    /\ InitListener
    /\ InitSession
    /\ InitTransaction
    /\ InitHttp

\* The caller takes the outcome; the next call can be made.
Return ==
    /\ ~Idle
    /\ call' = Call("none", 0, NoVal)
    /\ ret' = Outcome(Ok(0), LAMBDA x : NoVal)
    /\ acall' = ACall("none", <<>>, <<>>)
    /\ aret' = AOutcome(Ok(0), NoAddress, <<>>)
    /\ UNCHANGED <<regvars, listenervars, sessionvars, txvars, httpvars>>

ToDto ==
    /\ Idle
    /\ \E bits \in Widths, value \in IntSamples :
        /\ call' = Call("to_dto", bits, AsInt(value))
        /\ ret' = Outcome(to_dto(bits, value), LAMBDA d : AsDto(bits, d))
    /\ UNCHANGED <<addressvars, regvars, listenervars, sessionvars, txvars, httpvars>>

FromDto ==
    /\ Idle
    /\ \E bits \in Widths :
        \E dto \in DtoSamples(bits) :
            /\ call' = Call("from_dto", bits, AsDto(bits, dto))
            /\ ret' = Outcome(from_dto(bits, dto), AsInt)
    /\ UNCHANGED <<addressvars, regvars, listenervars, sessionvars, txvars, httpvars>>

ToCatbuffer ==
    /\ Idle
    /\ \E bits \in Widths, value \in IntSamples :
        /\ call' = Call("to_catbuffer", bits, AsInt(value))
        /\ ret' = Outcome(uW_to_catbuffer(bits, value), AsBytes)
    /\ UNCHANGED <<addressvars, regvars, listenervars, sessionvars, txvars, httpvars>>

FromCatbuffer ==
    /\ Idle
    /\ \E bits \in Widths, catbuffer \in ByteStrings :
        /\ call' = Call("from_catbuffer", bits, AsBytes(catbuffer))
        /\ ret' = Outcome(uW_from_catbuffer(bits, catbuffer), AsInt)
    /\ UNCHANGED <<addressvars, regvars, listenervars, sessionvars, txvars, httpvars>>

High ==
    /\ Idle
    /\ \E bits \in Widths, value \in IntSamples :
        /\ call' = Call("high", bits, AsInt(value))
        /\ ret' = Outcome(uW_high(bits, value), AsInt)
    /\ UNCHANGED <<addressvars, regvars, listenervars, sessionvars, txvars, httpvars>>

Low ==
    /\ Idle
    /\ \E bits \in Widths, value \in IntSamples :
        /\ call' = Call("low", bits, AsInt(value))
        /\ ret' = Outcome(uW_low(bits, value), AsInt)
    /\ UNCHANGED <<addressvars, regvars, listenervars, sessionvars, txvars, httpvars>>

NextStdint ==
    ToCatbuffer \/ FromCatbuffer \/ ToDto \/ FromDto \/ High \/ Low \/ Return

SpecStdint == Init /\ [][NextStdint]_vars

-----------------------------------------------------------------------------
(* The Address constructors and the inputs they are called with.           *)

\* Address bodies (the 20 hash bytes) tried.
NumBodies == 2
\* Whitespace of up to MaxPad characters on each side of a text is tried.
MaxPad == 1

Body(k) == [i \in 1..20 |-> (k * 37 + i * 11) % 256]

\* First bytes: the four network types, two bytes whose base32 text starts
\* with N and with S without being a network type, and one that starts
\* with A.
FirstBytes == NetworkType \cup {105, 151, 0}

Corrupt(cs) == [cs EXCEPT ![4] = (cs[4] + 1) % 256]

WithChecksum(a21, good) ==
    a21 \o (IF good THEN calculate_checksum(a21) ELSE Corrupt(calculate_checksum(a21)))

EncodedSamples ==
    {WithChecksum(<<n>> \o Body(k), good) :
        n \in FirstBytes, k \in 1..NumBodies, good \in BOOLEAN}

\* Generate n-sized chunks from collection.
chunks(collection, n) ==
    [c \in 1..((Len(collection) + n - 1) \div n) |->
        SubSeq(collection, (c - 1) * n + 1,
               IF c * n <= Len(collection) THEN c * n ELSE Len(collection))]

RECURSIVE join(_, _)
join(sep, parts) ==
    IF parts = <<>> THEN <<>>
    ELSE IF Len(parts) = 1 THEN parts[1]
    ELSE parts[1] \o sep \o join(sep, Tail(parts))

\* Address.plain
plain(self) == self.address

\* Address.pretty
pretty(self) == join(<<45>>, chunks(self.address, 6))

lower(t) == [i \in 1..Len(t) |-> IF t[i] >= 65 /\ t[i] <= 90 THEN t[i] + 32 ELSE t[i]]

Spaces(n) == [i \in 1..n |-> 32]

\* The texts an address is written as: plain, dashed, lower case, padded
\* with whitespace, and malformed ones (a character outside base32, a
\* character missing, a space inside, a space in place of a character, a
\* space before a closing dash).
TextsOf(e) ==
    LET t == b32encode(e)
    IN  {t, join(<<45>>, chunks(t, 6)), lower(t),
         [t EXCEPT ![40] = 49], SubSeq(t, 1, 39),
         SubSeq(t, 1, 20) \o <<32>> \o SubSeq(t, 21, 40),
         [t EXCEPT ![21] = 32],
         SubSeq(t, 1, 39) \o <<32, 45>>}
        \cup {Spaces(n) \o t \o <<10>> \o Spaces(n - 1) : n \in 1..MaxPad}

TextSamples == UNION {TextsOf(e) : e \in EncodedSamples}

BytesSamples ==
    EncodedSamples
    \cup {SubSeq(e, 1, 24) : e \in EncodedSamples}
    \cup {e \o <<0>> : e \in EncodedSamples}

CatbufferSamples ==
    {e \o rest : e \in EncodedSamples, rest \in {<<>>, <<1, 2, 3>>}}
    \cup {SubSeq(e, 1, 24) : e \in EncodedSamples}

\* Public keys tried.
NumKeys == 2

Key(k, len) == [i \in 1..len |-> (k * 53 + i * 29) % 256]

HexDigit(v) == IF v < 10 THEN 48 + v ELSE 87 + v

\* The lower-case hexadecimal text of the bytes.
hexlify(data) ==
    [i \in 1..(2 * Len(data)) |->
        HexDigit(IF i % 2 = 1 THEN data[(i + 1) \div 2] \div 16
                 ELSE data[i \div 2] % 16)]

\* Keys of 32 bytes written in lower case, in upper case and with the 0x
\* prefix; keys of 0, 31 and 33 bytes; a text with a digit missing and one
\* with a character that is no hexadecimal digit.
KeySamples ==
    UNION {LET h == hexlify(Key(k, 32))
           IN  {h, upper(h), <<48, 120>> \o h,
                hexlify(Key(k, 31)), hexlify(Key(k, 33)),
                <<48, 120>> \o hexlify(Key(k, 31)),
                SubSeq(h, 1, 63), [h EXCEPT ![7] = 103]} : k \in 1..NumKeys}
    \cup {<<>>}

\* Address(address)
NewAddress ==
    /\ Idle
    /\ \E text \in TextSamples :
        LET r == Address(text)
        IN  /\ acall' = ACall("Address", text, <<>>)
            /\ aret' = AOutcome(r, r.val, <<>>)
    /\ UNCHANGED <<stdintvars, regvars, listenervars, sessionvars, txvars, httpvars>>

CreateFromRawAddress ==
    /\ Idle
    /\ \E text \in TextSamples :
        LET r == Address_create_from_raw_address(text)
        IN  /\ acall' = ACall("create_from_raw_address", text, <<>>)
            /\ aret' = AOutcome(r, r.val, <<>>)
    /\ UNCHANGED <<stdintvars, regvars, listenervars, sessionvars, txvars, httpvars>>

CreateFromEncoded ==
    /\ Idle
    /\ \E bytes \in BytesSamples :
        LET r == Address_create_from_encoded(bytes)
        IN  /\ acall' = ACall("create_from_encoded", <<>>, bytes)
            /\ aret' = AOutcome(r, r.val, <<>>)
    /\ UNCHANGED <<stdintvars, regvars, listenervars, sessionvars, txvars, httpvars>>

AddressFromDto ==
    /\ Idle
    /\ \E text \in TextSamples :
        LET r == Address_from_dto(text)
        IN  /\ acall' = ACall("from_dto", text, <<>>)
            /\ aret' = AOutcome(r, r.val, <<>>)
    /\ UNCHANGED <<stdintvars, regvars, listenervars, sessionvars, txvars, httpvars>>

AddressFromCatbuffer ==
    /\ Idle
    /\ \E data \in CatbufferSamples :
        LET r == Address_from_catbuffer(data)
        IN  /\ acall' = ACall("from_catbuffer", <<>>, data)
            /\ aret' = AOutcome(r, r.val[1], r.val[2])
    /\ UNCHANGED <<stdintvars, regvars, listenervars, sessionvars, txvars, httpvars>>

\* The Address objects the methods are called on: every one a text yields.
AddressObjects == {Address(text).val : text \in {t \in TextSamples : Address(t).ok}}

\* a.plain(): the outcome keeps the object and the text returned.
Plain ==
    /\ Idle
    /\ \E self \in AddressObjects :
        /\ acall' = ACall("plain", self.address, <<>>)
        /\ aret' = AOutcome(Ok(0), self, plain(self))
    /\ UNCHANGED <<stdintvars, regvars, listenervars, sessionvars, txvars, httpvars>>

\* a.pretty()
Pretty ==
    /\ Idle
    /\ \E self \in AddressObjects :
        /\ acall' = ACall("pretty", self.address, <<>>)
        /\ aret' = AOutcome(Ok(0), self, pretty(self))
    /\ UNCHANGED <<stdintvars, regvars, listenervars, sessionvars, txvars, httpvars>>

\* a.to_catbuffer()
AddressToCatbuffer ==
    /\ Idle
    /\ \E self \in AddressObjects :
        LET r == Address_to_catbuffer(self)
        IN  /\ acall' = ACall("to_catbuffer", self.address, <<>>)
            /\ aret' = AOutcome(r, self, r.val)
    /\ UNCHANGED <<stdintvars, regvars, listenervars, sessionvars, txvars, httpvars>>

\* Identifiers tried: every single byte, no byte, two bytes.
IdentifierSamples == {<<c>> : c \in 0..255} \cup {<<>>, <<78, 78>>}

\* Raw addresses tried: every first character of one byte, two characters
\* beyond ASCII, and a text one character short.
RawAddressSamples ==
    LET t == b32encode(WithChecksum(<<MAIN_NET>> \o Body(1), TRUE))
    IN  {[t EXCEPT ![1] = c] : c \in (0..255) \cup {8364}}
        \cup {SubSeq(t, 1, 39)}

\* Values a DTO holds for the network type.
NetworkDtoSamples == 0..256

\* n.identifier(): the outcome keeps the identifier returned.
Identifier ==
    /\ Idle
    /\ \E self \in NetworkType :
        /\ acall' = ACallNt("identifier", <<>>, self)
        /\ aret' = AOutcome(Ok(0), NoAddress, NetworkType_identifier(self))
    /\ UNCHANGED <<stdintvars, regvars, listenervars, sessionvars, txvars, httpvars>>

\* NetworkType.create_from_identifier(identifier): the outcome keeps the
\* network type returned in the field of that name.
CreateFromIdentifier ==
    /\ Idle
    /\ \E id \in IdentifierSamples :
        LET r == NetworkType_create_from_identifier(id)
        IN  /\ acall' = ACall("NetworkType.create_from_identifier", <<>>, id)
            /\ aret' = AOutcome(r, AddressObj(<<>>, r.val), <<>>)
    /\ UNCHANGED <<stdintvars, regvars, listenervars, sessionvars, txvars, httpvars>>

\* NetworkType.create_from_raw_address(address)
NetworkTypeFromRawAddress ==
    /\ Idle
    /\ \E address \in RawAddressSamples :
        LET r == NetworkType_create_from_raw_address(address)
        IN  /\ acall' = ACall("NetworkType.create_from_raw_address", address, <<>>)
            /\ aret' = AOutcome(r, AddressObj(<<>>, r.val), <<>>)
    /\ UNCHANGED <<stdintvars, regvars, listenervars, sessionvars, txvars, httpvars>>

\* NetworkType.from_dto(data)
NetworkTypeFromDto ==
    /\ Idle
    /\ \E data \in NetworkDtoSamples :
        LET r == NetworkType_from_dto(data)
        IN  /\ acall' = ACallNt("NetworkType.from_dto", <<>>, data)
            /\ aret' = AOutcome(r, AddressObj(<<>>, r.val), <<>>)
    /\ UNCHANGED <<stdintvars, regvars, listenervars, sessionvars, txvars, httpvars>>

CreateFromPublicKey ==
    /\ Idle
    /\ \E public_key \in KeySamples, network_type \in NetworkType :
        LET r == Address_create_from_public_key(public_key, network_type)
        IN  /\ acall' = ACallNt("create_from_public_key", public_key, network_type)
            /\ aret' = AOutcome(r, r.val, <<>>)
    /\ UNCHANGED <<stdintvars, regvars, listenervars, sessionvars, txvars, httpvars>>

NextAddress ==
    \/ NetworkTypeFromRawAddress \/ CreateFromIdentifier
    \/ NetworkTypeFromDto \/ Identifier
    \/ CreateFromEncoded \/ AddressFromCatbuffer
    \/ NewAddress \/ CreateFromRawAddress \/ AddressFromDto
    \/ CreateFromPublicKey \/ Plain \/ Pretty \/ AddressToCatbuffer
    \/ Return

SpecAddress == Init /\ [][NextAddress]_vars

Next == NextStdint \/ NextAddress

Spec == Init /\ [][Next]_vars

-----------------------------------------------------------------------------
(* The registrations, which run when a transaction module is imported, and *)
(* the decode lookups.                                                     *)

\* mosaic_alias_transaction.py: Transaction.HOOKS[MOSAIC_ALIAS] = (...)
RegisterMosaicAlias ==
    /\ imported["mosaic_alias_transaction"] = "no"
    /\ \A m \in Modules : imported[m] # "top"
    /\ SetHook("Transaction", "MOSAIC_ALIAS", Hooks("MosaicAliasTransaction"))
    /\ imported' = [imported EXCEPT !["mosaic_alias_transaction"] = "top"]
    /\ UNCHANGED <<lookup, looked, stdintvars, addressvars, listenervars, sessionvars, txvars, httpvars>>

\* mosaic_alias_transaction.py: InnerTransaction.HOOKS[MOSAIC_ALIAS] = (...)
RegisterMosaicAliasInner ==
    /\ imported["mosaic_alias_transaction"] = "top"
    /\ SetHook("InnerTransaction", "MOSAIC_ALIAS", Hooks("MosaicAliasInnerTransaction"))
    /\ imported' = [imported EXCEPT !["mosaic_alias_transaction"] = "done"]
    /\ UNCHANGED <<lookup, looked, stdintvars, addressvars, listenervars, sessionvars, txvars, httpvars>>

\* mosaic_supply_change_transaction.py: the decorated top-level class
RegisterMosaicSupplyChange ==
    /\ imported["mosaic_supply_change_transaction"] = "no"
    /\ \A m \in Modules : imported[m] # "top"
    /\ register_transaction("MOSAIC_SUPPLY_CHANGE", "MosaicSupplyChangeTransaction", FALSE)
    /\ imported' = [imported EXCEPT !["mosaic_supply_change_transaction"] = "top"]
    /\ UNCHANGED <<lookup, looked, stdintvars, addressvars, listenervars, sessionvars, txvars, httpvars>>

\* mosaic_supply_change_transaction.py: the decorated embedded class
RegisterMosaicSupplyChangeInner ==
    /\ imported["mosaic_supply_change_transaction"] = "top"
    /\ register_transaction("MOSAIC_SUPPLY_CHANGE", "MosaicSupplyChangeInnerTransaction", TRUE)
    /\ imported' = [imported EXCEPT !["mosaic_supply_change_transaction"] = "done"]
    /\ UNCHANGED <<lookup, looked, stdintvars, addressvars, listenervars, sessionvars, txvars, httpvars>>

\* A decode through cls (Transaction or InnerTransaction) of a payload of
\* the type, binary or DTO: the decoder is looked up in cls.HOOKS.  No
\* decode runs while a module is being imported.
Lookup ==
    /\ \A m \in Modules : imported[m] # "top"
    /\ \E cls \in DOMAIN Bases, type \in TransactionTypes,
          format \in {"catbuffer", "dto"} :
        LET r == GetHook(cls, type)
        IN  lookup' = [cls |-> cls, type |-> type, format |-> format,
                       ok |-> r.ok,
                       decoder |-> IF ~r.ok THEN Method("", "")
                                   ELSE IF format = "catbuffer" THEN r.val[1]
                                   ELSE r.val[2]]
    /\ looked' = TRUE
    /\ UNCHANGED <<HOOKS, imported, writes, late, stdintvars, addressvars, listenervars, sessionvars, txvars, httpvars>>

NextRegistry ==
    \/ RegisterMosaicAlias \/ RegisterMosaicAliasInner
    \/ RegisterMosaicSupplyChange \/ RegisterMosaicSupplyChangeInner
    \/ Lookup

SpecRegistry == Init /\ [][NextRegistry]_vars

-----------------------------------------------------------------------------
(* The messages a listener receives.                                       *)

\* The keys __anext__ looks for, in its order, and the other keys tried:
\* those the decoders read and one no code knows.
MessageKeys == <<"transaction", "block", "status", "meta", "parentHash">>

OtherKeys == {"hash", "deadline", "signature", "signer", "foo"}

ChannelNames == {"confirmedAdded", "unconfirmedRemoved"}

JsonObjects ==
    {JsonObject(keys, {}, "", "") :
        keys \in SUBSET ({"transaction", "block", "status", "parentHash"} \cup OtherKeys)}
    \cup
    {JsonObject(keys \cup {"meta"}, metakeys,
                IF "channelName" \in metakeys THEN channelName ELSE "",
                IF "hash" \in metakeys THEN "5A3D" ELSE "") :
        keys \in SUBSET ({"transaction", "block", "status", "parentHash"} \cup OtherKeys),
        metakeys \in SUBSET {"channelName", "hash"},
        channelName \in ChannelNames}

\* await listener.__anext__(): the next message arrives and is classified.
Anext ==
    /\ \E d \in JsonObjects :
        /\ received' = d
        /\ anext' = Listener_anext(d)
    /\ UNCHANGED <<stdintvars, addressvars, regvars, sessionvars, txvars, httpvars>>

NextListener == Anext

SpecListener == Init /\ [][NextListener]_vars

-----------------------------------------------------------------------------
(* One listener session: the server sends frames, coroutines subscribe and *)
(* unsubscribe, and one coroutine iterates over the listener.              *)

MaxFrames == 3
MaxRequests == 2

\* The frame a server sends on connection, and the frames it sends for
\* the channels subscribed to: a block, a confirmation notice, and an
\* object no branch of __anext__ knows.
UidFrame == Frame(JsonObject({"uid"}, {}, "", ""), "F3A1")

DataFrames ==
    {Frame(JsonObject({"block"}, {}, "", ""), ""),
     Frame(JsonObject({"meta"}, {"channelName", "hash"}, "confirmedAdded", "5A3D"), ""),
     Frame(JsonObject({"foo"}, {}, "", ""), "")}

SessionAddresses == {"SD5DT3CH4BLABL5HIMEKP2TAPUKF4NY3L5HRIR54"}

Subscribed == \E k \in 1 .. Len(sent) : sent[k].message.request = "subscribe"

Pending == {t \in Tasks : tasks[t].pc # "idle"}

\* The server sends a frame: the uid first, then, once a channel is
\* subscribed to, the messages of the channels.
Arrive ==
    /\ Len(arrived) < MaxFrames
    /\ \E f \in IF arrived = <<>> THEN {UidFrame} ELSE DataFrames :
        /\ arrived # <<>> => Subscribed
        /\ arrived' = Append(arrived, f)
        /\ socket' = Append(socket, f)
    /\ UNCHANGED <<taken, outcomes, _uid, sent, tasks>>
    /\ UNCHANGED <<stdintvars, addressvars, regvars, listenervars, txvars, httpvars>>

\* A coroutine builds json.dumps({'uid': await self.uid, request: channel}):
\* the uid property returns _uid when it is set, and awaits
\* self.client.recv() when it is None; then the request is sent.
Send(t, method, request, channel) ==
    /\ tasks[t].pc = "idle"
    /\ Len(sent) + Cardinality(Pending) < MaxRequests
    /\ IF _uid = None
       THEN /\ tasks' = [tasks EXCEPT ![t] =
                            [pc |-> "recv", method |-> method,
                             request |-> request, channel |-> channel]]
            /\ UNCHANGED sent
       ELSE /\ sent' = Append(sent, Sent(method, Request(_uid, request, channel)))
            /\ UNCHANGED tasks
    /\ UNCHANGED <<socket, arrived, taken, outcomes, _uid>>
    /\ UNCHANGED <<stdintvars, addressvars, regvars, listenervars, txvars, httpvars>>

\* await listener.new_block(), confirmed(address), ..., each of which
\* awaits self.subscribe(channel).
Subscribe ==
    \E t \in Tasks, method \in Methods, address \in SessionAddresses :
        Send(t, method, "subscribe", Subscription(method, address))

\* await listener.unsubscribe(channel)
Unsubscribe ==
    \E t \in Tasks, method \in Methods, address \in SessionAddresses :
        Send(t, "unsubscribe", "unsubscribe", Subscription_own(method, address))

\* self.client.recv() returns to a coroutine waiting in the uid property:
\* json.loads(frame)['uid'] is stored in _uid and the request is sent, or
\* the frame has no key uid and KeyError ends the call.
Recv ==
    \E t \in Tasks :
        /\ tasks[t].pc = "recv"
        /\ socket # <<>>
        /\ socket' = Tail(socket)
        /\ taken' = Append(taken, "uid")
        /\ IF "uid" \in Head(socket).keys
           THEN /\ _uid' = Head(socket).uid
                /\ sent' = Append(sent, Sent(tasks[t].method,
                                              Request(Head(socket).uid,
                                                      tasks[t].request, tasks[t].channel)))
           ELSE UNCHANGED <<_uid, sent>>
        /\ tasks' = [tasks EXCEPT ![t] = NoTask]
        /\ UNCHANGED <<arrived, outcomes>>
        /\ UNCHANGED <<stdintvars, addressvars, regvars, listenervars, txvars, httpvars>>

\* __anext__ that leaves a frame it could not classify on the socket.
Iterate_retry ==
    /\ socket # <<>>
    /\ socket' = IF Listener_anext(Head(socket)).ok THEN Tail(socket) ELSE socket
    /\ taken' = Append(taken, "anext")
    /\ outcomes' = Append(outcomes, Listener_anext(Head(socket)))
    /\ UNCHANGED <<arrived, _uid, sent, tasks>>
    /\ UNCHANGED <<stdintvars, addressvars, regvars, listenervars, txvars, httpvars>>

\* await listener.__anext__(): self._iter.__anext__() hands over the next
\* frame of the socket, which is classified.
Iterate ==
    /\ socket # <<>>
    /\ socket' = Tail(socket)
    /\ taken' = Append(taken, "anext")
    /\ outcomes' = Append(outcomes, Listener_anext(Head(socket)))
    /\ UNCHANGED <<arrived, _uid, sent, tasks>>
    /\ UNCHANGED <<stdintvars, addressvars, regvars, listenervars, txvars, httpvars>>

NextSession == Arrive \/ Subscribe \/ Unsubscribe \/ Recv \/ Iterate

SpecSession == Init /\ [][NextSession]_vars

-----------------------------------------------------------------------------
(* Calls on transactions and receipts.  The object at hand, tret.obj, is   *)
(* the one the last constructor, factory or load has produced.             *)

RestBytes == 2

\* The program holds no transaction: it makes one, or decodes one.
NothingAtHand == tcall.op = "none"

\* The program lets go of the object it holds.
Release ==
    /\ ~NothingAtHand
    /\ tcall' = TCall("none", NoTx, NoArgs, <<>>, NoDto)
    /\ tret' = TOutcome(Ok(0), NoTx, <<>>, NoDto)
    /\ UNCHANGED <<stdintvars, addressvars, regvars, listenervars, sessionvars, httpvars>>

MosaicIdSamples ==
    {Val("MosaicId", PyInt(0, <<227, 41, 173, 28, 190, 127, 198, 13>>)),
     Val("MosaicId", Small(5))}

NamespaceIdSamples == {Val("NamespaceId", PyInt(0, <<1, 2, 3, 4, 5, 6, 7, 200>>))}

DirectionSamples == {Val("MosaicSupplyType", Small(m)) : m \in MosaicSupplyType}

ActionTypeSamples == {Val("AliasActionType", Small(m)) : m \in AliasActionType}

DeltaSamples == {Val("int", PyInt(0, <<232, 3>>)), Val("int", PyInt(0, <<0, 0, 0, 0, 1>>))}

MaxFeeSamples == {PyNone, Val("int", Small(1))}

DeadlineSamples == {1, 2}

SignerSamples ==
    {"1B153F8B76EF60A4BFE152F4DE3698BD230BAC9DC239D4E448715CA46F6EEC6A",
     "C2F93346E27CE6AD1A9F8F5E3066F8326593A406BDF357ACB041E2F9AB402EFE"}

\* MosaicSupplyChangeTransaction.create(deadline, mosaic_id, direction,
\* delta, network_type, max_fee)
SupplyChangeCreate ==
    /\ NothingAtHand
    /\ \E deadline \in DeadlineSamples, mosaic_id \in MosaicIdSamples,
          direction \in DirectionSamples, delta \in DeltaSamples,
          max_fee \in MaxFeeSamples :
        /\ tcall' = TCall("MosaicSupplyChangeTransaction.create", NoTx,
                          [NoArgs EXCEPT !.deadline = deadline,
                                         !.mosaic_id = mosaic_id,
                                         !.direction = direction,
                                         !.delta = delta,
                                         !.network_type = MIJIN_TEST,
                                         !.max_fee = max_fee],
                          <<>>, NoDto)
        /\ tret' = TOutcome(Ok(0),
                            MosaicSupplyChangeTransaction_create(
                                deadline, mosaic_id, direction, delta,
                                MIJIN_TEST, max_fee),
                            <<>>, NoDto)
    /\ UNCHANGED <<stdintvars, addressvars, regvars, listenervars, sessionvars, httpvars>>

\* MosaicAliasTransaction.create(deadline, action_type, namespace_id,
\* mosaic_id, network_type)
AliasCreate ==
    /\ NothingAtHand
    /\ \E deadline \in DeadlineSamples, action_type \in ActionTypeSamples,
          namespace_id \in NamespaceIdSamples, mosaic_id \in MosaicIdSamples :
        /\ tcall' = TCall("MosaicAliasTransaction.create", NoTx,
                          [NoArgs EXCEPT !.deadline = deadline,
                                         !.action_type = action_type,
                                         !.namespace_id = namespace_id,
                                         !.mosaic_id = mosaic_id,
                                         !.network_type = MIJIN_TEST],
                          <<>>, NoDto)
        /\ tret' = TOutcome(Ok(0),
                            MosaicAliasTransaction_create(
                                deadline, action_type, namespace_id,
                                mosaic_id, MIJIN_TEST),
                            <<>>, NoDto)
    /\ UNCHANGED <<stdintvars, addressvars, regvars, listenervars, sessionvars, httpvars>>

SignatureSamples == {"", "9F2C"}

\* MosaicSupplyChangeTransaction(network_type, version, deadline, mosaic_id,
\* direction, delta, max_fee, signature=..., signer=...)
SupplyChangeNew ==
    /\ NothingAtHand
    /\ \E deadline \in DeadlineSamples, mosaic_id \in MosaicIdSamples,
          direction \in DirectionSamples, delta \in DeltaSamples,
          max_fee \in MaxFeeSamples, signature \in SignatureSamples :
        /\ tcall' = TCall("MosaicSupplyChangeTransaction", NoTx,
                          [NoArgs EXCEPT !.deadline = deadline,
                                         !.mosaic_id = mosaic_id,
                                         !.direction = direction,
                                         !.delta = delta,
                                         !.network_type = MIJIN_TEST,
                                         !.max_fee = max_fee],
                          <<>>, NoDto)
        /\ tret' = TOutcome(Ok(0),
                            MosaicSupplyChangeTransaction(
                                MIJIN_TEST, TransactionVersion_MOSAIC_SUPPLY_CHANGE,
                                deadline, mosaic_id, direction, delta, max_fee,
                                signature,
                                IF signature = "" THEN "" ELSE CHOOSE k \in SignerSamples : TRUE),
                            <<>>, NoDto)
    /\ UNCHANGED <<stdintvars, addressvars, regvars, listenervars, sessionvars, httpvars>>

\* MosaicAliasTransaction(network_type, version, deadline, fee, action_type,
\* namespace_id, mosaic_id, signature=..., signer=...)
AliasNew ==
    /\ NothingAtHand
    /\ \E deadline \in DeadlineSamples, action_type \in ActionTypeSamples,
          namespace_id \in NamespaceIdSamples, mosaic_id \in MosaicIdSamples,
          signature \in SignatureSamples :
        /\ tcall' = TCall("MosaicAliasTransaction", NoTx,
                          [NoArgs EXCEPT !.deadline = deadline,
                                         !.action_type = action_type,
                                         !.namespace_id = namespace_id,
                                         !.mosaic_id = mosaic_id,
                                         !.network_type = MIJIN_TEST],
                          <<>>, NoDto)
        /\ tret' = TOutcome(Ok(0),
                            MosaicAliasTransaction(
                                MIJIN_TEST, TransactionVersion_MOSAIC_ALIAS,
                                deadline, Val("int", Small(0)), action_type,
                                namespace_id, mosaic_id, signature,
                                IF signature = "" THEN "" ELSE CHOOSE k \in SignerSamples : TRUE),
                            <<>>, NoDto)
    /\ UNCHANGED <<stdintvars, addressvars, regvars, listenervars, sessionvars, httpvars>>

AccountSamples == {"SD5DT3CH4BLABL5HIMEKP2TAPUKF4NY3L5HRIR54"}

\* BalanceChangeReceipt(network_type, version, account, mosaic_id, amount)
ReceiptNew ==
    /\ NothingAtHand
    /\ \E account \in AccountSamples, mosaic_id \in MosaicIdSamples,
          amount \in DeltaSamples :
        /\ tcall' = TCall("BalanceChangeReceipt", NoTx, NoArgs, <<>>, NoDto)
        /\ tret' = TOutcome(Ok(0),
                            BalanceChangeReceipt(MIJIN_TEST, 1, account,
                                                 Val("int", mosaic_id.int), amount),
                            <<>>, NoDto)
    /\ UNCHANGED <<stdintvars, addressvars, regvars, listenervars, sessionvars, httpvars>>

TransactionClasses == {"MosaicSupplyChangeTransaction", "MosaicAliasTransaction"}

TypeOf(cls) ==
    IF cls = "MosaicSupplyChangeTransaction" THEN "MOSAIC_SUPPLY_CHANGE"
    ELSE "MOSAIC_ALIAS"

\* The method of the object's class.
to_catbuffer_specific(self) ==
    IF self.cls = "MosaicSupplyChangeTransaction"
    THEN MosaicSupplyChangeTransaction_to_catbuffer_specific(self)
    ELSE MosaicAliasTransaction_to_catbuffer_specific(self)

load_catbuffer_specific(self, data) ==
    IF self.cls = "MosaicSupplyChangeTransaction"
    THEN MosaicSupplyChangeTransaction_load_catbuffer_specific(self, data)
    ELSE MosaicAliasTransaction_load_catbuffer_specific(self, data)

catbuffer_size_specific(self) ==
    IF self.cls = "MosaicSupplyChangeTransaction"
    THEN MosaicSupplyChangeTransaction_catbuffer_size_specific
    ELSE MosaicAliasTransaction_catbuffer_size_specific

to_dto_specific(self) ==
    IF self.cls = "MosaicSupplyChangeTransaction"
    THEN MosaicSupplyChangeTransaction_to_dto_specific(self)
    ELSE BalanceChangeReceipt_to_dto_specific(self)

validate_dto_specific(cls, data) ==
    IF cls = "MosaicSupplyChangeTransaction"
    THEN MosaicSupplyChangeTransaction_validate_dto_specific(data)
    ELSE BalanceChangeReceipt_validate_dto_specific(data)

load_dto_specific(self, data) ==
    IF self.cls = "MosaicSupplyChangeTransaction"
    THEN MosaicSupplyChangeTransaction_load_dto_specific(self, data)
    ELSE BalanceChangeReceipt_load_dto_specific(self, data)

\* The program holds the object: a load that raised has returned none.
AtHand ==
    ~(tcall.op \in {"load_catbuffer_specific", "load_dto_specific"} /\ ~tret.ok)

\* tx.to_catbuffer_specific(network_type) on the transaction at hand
ToCatbufferSpecific ==
    /\ AtHand
    /\ tret.obj.cls \in TransactionClasses
    /\ tcall' = TCall("to_catbuffer_specific", tret.obj, NoArgs, <<>>, NoDto)
    /\ tret' = TOutcome(to_catbuffer_specific(tret.obj), tret.obj,
                        to_catbuffer_specific(tret.obj).val, NoDto)
    /\ UNCHANGED <<stdintvars, addressvars, regvars, listenervars, sessionvars, httpvars>>

\* The bytes that follow a payload in a buffer.
Rest(n) == [i \in 1 .. n |-> 240 + i]

\* The buffers decoded: the payloads of the transactions, followed by
\* other bytes or cut short, and payloads whose enum byte names no member.
Payloads ==
    {MosaicSupplyChangeTransaction_to_catbuffer_specific(
         MosaicSupplyChangeTransaction(MIJIN_TEST, 2, 1, m, d, a, PyNone, "", "")).val :
        m \in MosaicIdSamples, d \in DirectionSamples, a \in DeltaSamples}
    \cup
    {MosaicAliasTransaction_to_catbuffer_specific(
         MosaicAliasTransaction(MIJIN_TEST, 1, 1, PyNone, t, n, m, "", "")).val :
        t \in ActionTypeSamples, n \in NamespaceIdSamples, m \in MosaicIdSamples}

DataSamples ==
    {SubSeq(b \o Rest(RestBytes), 1, n) : b \in Payloads, n \in 0 .. (17 + RestBytes)}
    \cup {[b EXCEPT ![k] = 7] : b \in Payloads, k \in {1, 9}}

\* An object of the class is made with cls.__new__ and loads the buffer.
LoadCatbufferSpecific ==
    /\ NothingAtHand
    /\ \E cls \in TransactionClasses, data \in DataSamples :
        /\ tcall' = TCall("load_catbuffer_specific", Blank(cls, TypeOf(cls)),
                          NoArgs, data, NoDto)
        /\ tret' = load_catbuffer_specific(Blank(cls, TypeOf(cls)), data)
    /\ UNCHANGED <<stdintvars, addressvars, regvars, listenervars, sessionvars, httpvars>>

\* obj.to_dto_specific(network_type) on the object at hand
ToDtoSpecific ==
    /\ AtHand
    /\ tret.obj.cls \in {"MosaicSupplyChangeTransaction", "BalanceChangeReceipt"}
    /\ tcall' = TCall("to_dto_specific", tret.obj, NoArgs, <<>>, NoDto)
    /\ tret' = TOutcome(to_dto_specific(tret.obj), tret.obj, <<>>,
                        to_dto_specific(tret.obj).val)
    /\ UNCHANGED <<stdintvars, addressvars, regvars, listenervars, sessionvars, httpvars>>

\* An object of the class is made with cls.__new__ and loads the DTO that
\* to_dto_specific has just produced.
LoadDtoSpecific ==
    /\ tcall.op = "to_dto_specific" /\ tret.ok
    /\ tcall' = TCall("load_dto_specific", Blank(tret.obj.cls, tret.obj.type),
                      NoArgs, <<>>, tret.dto)
    /\ tret' = load_dto_specific(Blank(tret.obj.cls, tret.obj.type), tret.dto)
    /\ UNCHANGED <<stdintvars, addressvars, regvars, listenervars, sessionvars, httpvars>>

\* tx.to_aggregate(signer) on the mosaic alias transaction at hand
ToAggregate ==
    /\ AtHand
    /\ tret.obj.cls = "MosaicAliasTransaction"
    /\ \E signer \in SignerSamples :
        /\ tcall' = TCall("to_aggregate", tret.obj,
                          [NoArgs EXCEPT !.signer = signer], <<>>, NoDto)
        /\ tret' = TOutcome(Ok(0), MosaicAliasTransaction_to_aggregate(tret.obj, signer),
                            <<>>, NoDto)
    /\ UNCHANGED <<stdintvars, addressvars, regvars, listenervars, sessionvars, httpvars>>

MaxInner == 2

\* The inner transactions an aggregate is built from, and the accounts
\* that cosign it.
InnerSamples ==
    {MosaicAliasTransaction_to_aggregate(
         MosaicAliasTransaction_create(1, t, n, m, MIJIN_TEST), s) :
        t \in ActionTypeSamples, n \in NamespaceIdSamples,
        m \in MosaicIdSamples, s \in {CHOOSE k \in SignerSamples : TRUE}}

CosignerSamples == {c \in SeqsUpTo(SignerSamples, 2) : Len(c) < 2 \/ c[1] # c[2]}

GenerationHash == [i \in 1 .. 32 |-> (123 + 7 * i) % 256]

\* AggregateTransaction.create_complete(deadline, inner_transactions,
\* network_type)
CreateComplete ==
    /\ NothingAtHand
    /\ \E deadline \in {1},
          inner_transactions \in SeqsUpTo(InnerSamples, MaxInner) :
        /\ inner_transactions # <<>>
        /\ tcall' = TCall("create_complete", NoTx,
                          [NoArgs EXCEPT !.deadline = deadline,
                                         !.network_type = MIJIN_TEST],
                          <<>>, NoDto)
        /\ tret' = TOutcome(Ok(0),
                            create_complete(deadline, inner_transactions, MIJIN_TEST),
                            <<>>, NoDto)
    /\ UNCHANGED <<stdintvars, addressvars, regvars, listenervars, sessionvars, httpvars>>

\* escrow.sign_transaction_with_cosignatories(signer, *cosigners, gen_hash)
\* on the aggregate just built
SignWithCosignatories ==
    /\ tcall.op = "create_complete"
    /\ \E signer \in SignerSamples, cosigners \in CosignerSamples :
        /\ tcall' = TCall("sign_transaction_with_cosignatories", tret.obj,
                          [NoArgs EXCEPT !.signer = signer, !.cosigners = cosigners],
                          <<>>, NoDto)
        /\ tret' = TOutcome(Ok(0), tret.obj,
                            sign_transaction_with_cosignatories(
                                tret.obj, signer, cosigners, GenerationHash),
                            NoDto)
    /\ UNCHANGED <<stdintvars, addressvars, regvars, listenervars, sessionvars, httpvars>>

NextTransaction ==
    \/ CreateComplete \/ SignWithCosignatories
    \/ LoadCatbufferSpecific \/ ReceiptNew \/ SupplyChangeNew \/ AliasNew
    \/ AliasCreate \/ SupplyChangeCreate \/ ToCatbufferSpecific
    \/ ToDtoSpecific \/ LoadDtoSpecific \/ ToAggregate \/ Release

SpecTransaction == Init /\ [][NextTransaction]_vars

-----------------------------------------------------------------------------
(* Calls on the HTTP clients.  The program makes one call at a time; the   *)
(* calls it sets off run to their end, innermost first.                    *)

MaxCalls == 3
MaxDepth == 6

\* The network the server runs.
ServerNetworkType == MIJIN_TEST

Top == stack[Len(stack)]

Push(frame) == Append(stack, frame)

Pop == SubSeq(stack, 1, Len(stack) - 1)

\* The top frame moves on to pc, holding network_type.
Goto(pc, network_type) ==
    [stack EXCEPT ![Len(stack)] = [@ EXCEPT !.pc = pc, !.network_type = network_type]]

\* The program reads client.network_type.
ReadNetworkType ==
    /\ stack = <<>> /\ calls < MaxCalls
    /\ \E client \in Clients :
        stack' = <<HFrame("network_type", client, "", Kwds(FALSE, NoNetworkType), "start")>>
    /\ calls' = calls + 1
    /\ UNCHANGED <<_network_type, hret, requests, resolved, delivered>>
    /\ UNCHANGED <<stdintvars, addressvars, regvars, listenervars, sessionvars, txvars>>

\* The program calls a method of a client that invokes a NIS callback,
\* with or without the keyword network_type.
Invoke ==
    /\ stack = <<>> /\ calls < MaxCalls
    /\ \E client \in Clients,
          kwds \in {Kwds(FALSE, NoNetworkType)} \cup {Kwds(TRUE, n) : n \in {MAIN_NET, MIJIN_TEST}} :
        stack' = <<HFrame("__call__", client, "nis.get_block_by_height", kwds, "start")>>
    /\ calls' = calls + 1
    /\ UNCHANGED <<_network_type, hret, requests, resolved, delivered>>
    /\ UNCHANGED <<stdintvars, addressvars, regvars, listenervars, sessionvars, txvars>>

\* HttpBase.network_type: the cached value, or the value
\* self.root.network.get_network_type() returns, which is cached.
NetworkTypeProperty ==
    /\ stack # <<>> /\ Top.fn = "network_type"
    /\ IF Top.pc = "start"
       THEN IF _network_type[Top.client] # NoNetworkType
            THEN /\ hret' = _network_type[Top.client]
                 /\ stack' = Pop
                 /\ UNCHANGED <<_network_type, resolved>>
            ELSE /\ Len(stack) < MaxDepth
                 /\ stack' = Append(Goto("called", NoNetworkType),
                                    HFrame("get_network_type", root_network(Top.client),
                                           "", Kwds(FALSE, NoNetworkType), "start"))
                 /\ resolved' = [resolved EXCEPT ![Top.client] = @ + 1]
                 /\ UNCHANGED <<_network_type, hret>>
       ELSE /\ _network_type' = [_network_type EXCEPT ![Top.client] = hret]
            /\ stack' = Pop
            /\ UNCHANGED <<hret, resolved>>
    /\ UNCHANGED <<requests, delivered, calls>>
    /\ UNCHANGED <<stdintvars, addressvars, regvars, listenervars, sessionvars, txvars>>

\* NetworkHttp.get_network_type
GetNetworkType ==
    /\ stack # <<>> /\ Top.fn = "get_network_type"
    /\ IF Top.pc = "start"
       THEN /\ Len(stack) < MaxDepth
            /\ stack' = Append(Goto("called", NoNetworkType), get_network_type(Top.client))
       ELSE stack' = Pop
    /\ UNCHANGED <<_network_type, hret, requests, resolved, delivered, calls>>
    /\ UNCHANGED <<stdintvars, addressvars, regvars, listenervars, sessionvars, txvars>>

\* HttpBase.__call__: network_type is the keyword when it was passed and
\* self.network_type otherwise; then the callback runs.
CallHttp ==
    /\ stack # <<>> /\ Top.fn = "__call__"
    /\ CASE Top.pc = "start" /\ Top.kwds.given ->
              /\ stack' = Goto("cb", Top.kwds.network_type)
              /\ UNCHANGED <<hret, requests, delivered>>
         [] Top.pc = "start" /\ ~Top.kwds.given ->
              /\ Len(stack) < MaxDepth
              /\ stack' = Append(Goto("read", NoNetworkType),
                                 HFrame("network_type", Top.client, "",
                                        Kwds(FALSE, NoNetworkType), "start"))
              /\ UNCHANGED <<hret, requests, delivered>>
         [] Top.pc = "read" ->
              /\ stack' = Goto("cb", hret)
              /\ UNCHANGED <<hret, requests, delivered>>
         [] Top.pc = "cb" /\ Top.cb = "nis.get_network_type" ->
              /\ requests' = requests + 1
              /\ hret' = ServerNetworkType
              /\ stack' = Pop
              /\ UNCHANGED delivered
         [] Top.pc = "cb" /\ Top.cb # "nis.get_network_type" ->
              /\ delivered' = [client |-> Top.client, cb |-> Top.cb, kwds |-> Top.kwds,
                               network_type |-> Top.network_type]
              /\ hret' = NoNetworkType
              /\ stack' = Pop
              /\ UNCHANGED requests
    /\ UNCHANGED <<_network_type, resolved, calls>>
    /\ UNCHANGED <<stdintvars, addressvars, regvars, listenervars, sessionvars, txvars>>

\* The program calls client.network.get_network_type().
CallGetNetworkType ==
    /\ stack = <<>> /\ calls < MaxCalls
    /\ stack' = <<HFrame("get_network_type", "network", "", Kwds(FALSE, NoNetworkType), "start")>>
    /\ calls' = calls + 1
    /\ UNCHANGED <<_network_type, hret, requests, resolved, delivered>>
    /\ UNCHANGED <<stdintvars, addressvars, regvars, listenervars, sessionvars, txvars>>

NextHttp ==
    \/ ReadNetworkType \/ Invoke \/ CallGetNetworkType
    \/ NetworkTypeProperty \/ GetNetworkType \/ CallHttp

SpecHttp == Init /\ [][NextHttp]_vars

-----------------------------------------------------------------------------
(* Arithmetic the properties are stated with, on integers >= 0.            *)

IsNat(v) == v.ext = 0

\* 0 <= v <= 2^bits - 1
Fits(v, bits) ==
    LET full == bits \div 8
        r == bits % 8
        n == Len(v.bytes)
    IN  /\ IsNat(v)
        /\ n <= full + (IF r > 0 THEN 1 ELSE 0)
        /\ (n = full + 1 => v.bytes[n] < Pow2(r))

\* The n little-endian base-256 digits of v.
Digits(v, n) == [i \in 1..n |-> IF i <= Len(v.bytes) THEN v.bytes[i] ELSE 0]

\* v mod 2^bits and v div 2^bits, bits a multiple of 8.
ModPow(v, bits) == PyInt(0, Digits(v, bits \div 8))

DivPow(v, bits) ==
    PyInt(0, [i \in 1..Max(Len(v.bytes) - bits \div 8, 0) |-> v.bytes[i + bits \div 8]])

RECURSIVE AddDigits(_, _, _, _)
AddDigits(x, y, i, carry) ==
    IF i > Max(Len(x.bytes), Len(y.bytes))
    THEN (IF carry = 0 THEN <<>> ELSE <<carry>>)
    ELSE LET s == Digits(x, i)[i] + Digits(y, i)[i] + carry
         IN  <<s % 256>> \o AddDigits(x, y, i + 1, s \div 256)

\* x + y
Add(x, y) == PyInt(0, AddDigits(x, y, 1, 0))

RECURSIVE MulDigits(_, _, _, _)
MulDigits(bs, m, i, carry) ==
    IF i > Len(bs)
    THEN (IF carry = 0 THEN <<>> ELSE <<carry>>)
    ELSE LET s == bs[i] * m + carry
         IN  <<s % 256>> \o MulDigits(bs, m, i + 1, s \div 256)

\* v * 2^k: multiply by 2^(k mod 8), then by 256^(k div 8)
TimesPow2(v, k) ==
    PyInt(0, [i \in 1..(k \div 8) |-> 0] \o MulDigits(v.bytes, Pow2(k % 8), 1, 0))

\* 2^bits - 1, the largest value of the width.
MaxOf(bits) == PyInt(0, [i \in 1..(bits \div 8) |-> 255])

\* The limbs of a 64-bit or 128-bit DTO, whatever its shape.
Limbs(bits, dto) ==
    IF bits = U64_BITS THEN {dto[i] : i \in 1..Len(dto)}
    ELSE UNION {{dto[i][j] : j \in 1..Len(dto[i])} : i \in 1..Len(dto)}

-----------------------------------------------------------------------------
(* C1: for 0 <= v <= 2^64-1, u64_to_dto(v) is [v mod 2^32, v div 2^32] and *)
(* u64_from_dto gives v back; for 0 <= v <= 2^128-1, u128_to_dto(v) is the *)
(* pair of the 64-bit DTOs of its low and high 64 bits and u128_from_dto   *)
(* gives v back.                                                           *)
C1_DtoRoundTrip ==
    /\ (call.op = "to_dto" /\ call.bits = U64_BITS /\ Fits(call.arg.int, U64_BITS)) =>
           LET v == call.arg.int
               back == u64_from_dto(ret.val.dto64)
           IN  /\ ret.ok
               /\ ret.val.dto64 = <<ModPow(v, 32), DivPow(v, 32)>>
               /\ back.ok /\ back.val = v
    /\ (call.op = "to_dto" /\ call.bits = U128_BITS /\ Fits(call.arg.int, U128_BITS)) =>
           LET v == call.arg.int
               lo64 == ModPow(v, 64)
               hi64 == DivPow(v, 64)
               back == u128_from_dto(ret.val.dto128)
           IN  /\ ret.ok
               /\ ret.val.dto128 = << <<ModPow(lo64, 32), DivPow(lo64, 32)>>,
                                      <<ModPow(hi64, 32), DivPow(hi64, 32)>> >>
               /\ back.ok /\ back.val = v

C1_Witness ==
    /\ call.op = "to_dto" /\ call.bits = U128_BITS
    /\ Len(call.arg.int.bytes) = U128_BYTES /\ IsNat(call.arg.int)
    /\ ret.ok
    /\ \A i \in 1..2, j \in 1..2 :
           ret.val.dto128[i][j] \notin {Small(0), AllOnes(4)}

(* C2: for each width w and 0 <= v <= 2^w-1, uW_to_catbuffer(v) is exactly *)
(* w/8 bytes, the little-endian digits of v, and uW_from_catbuffer gives v *)
(* back.                                                                   *)
C2_CatbufferRoundTrip ==
    (call.op = "to_catbuffer" /\ Fits(call.arg.int, call.bits)) =>
        LET back == uW_from_catbuffer(call.bits, ret.val.bytes)
        IN  /\ ret.ok
            /\ Len(ret.val.bytes) = call.bits \div 8
            /\ ret.val.bytes = Digits(call.arg.int, call.bits \div 8)
            /\ back.ok /\ back.val = call.arg.int

C2_Witness ==
    /\ call.op = "to_catbuffer" /\ call.bits = U64_BITS
    /\ Len(call.arg.int.bytes) = 3 /\ IsNat(call.arg.int)
    /\ ret.ok /\ Len(ret.val.bytes) = U64_BYTES
    /\ ret.val.bytes[1] # ret.val.bytes[3]

C4_OverflowRejected ==
    (call.op \in {"to_dto", "to_catbuffer"} /\ Gt(call.arg.int, MaxOf(call.bits))) =>
        (~ret.ok /\ ret.err = "OverflowError")

(* C5 as claimed: a negative integer given to uW_to_dto, uW_high or uW_low *)
(* fails; a DTO with a limb outside [0, 2^32-1] given to u64_from_dto or   *)
(* u128_from_dto fails; every value from_dto or from_catbuffer returns     *)
(* lies in [0, 2^w-1].                                                     *)
C5_NoOutOfRangeAccepted ==
    /\ (call.op \in {"to_dto", "high", "low"} /\ IsNeg(call.arg.int)) => ~ret.ok
    /\ (call.op = "from_dto" /\ call.bits \in {U64_BITS, U128_BITS}
        /\ \E l \in Limbs(call.bits, DtoOf(call.bits, call.arg)) : ~Fits(l, U32_BITS)) =>
           ~ret.ok
    /\ (call.op \in {"from_dto", "from_catbuffer"} /\ ret.ok) =>
           Fits(ret.val.int, call.bits)

(* C6: uW_from_catbuffer(b) fails with an overflow error when b has more   *)
(* than w/8 bytes and succeeds when it has at most w/8.                    *)
C6_CatbufferLength ==
    call.op = "from_catbuffer" =>
        /\ Len(call.arg.bytes) > call.bits \div 8 =>
               (~ret.ok /\ ret.err = "OverflowError")
        /\ Len(call.arg.bytes) <= call.bits \div 8 => ret.ok

C6_Witness ==
    /\ call.op = "from_catbuffer" /\ call.bits = U32_BITS
    /\ Len(call.arg.bytes) = U32_BYTES + 1
    /\ ~ret.ok /\ ret.err = "OverflowError"

(* C7: u64_from_dto(d) fails with an arithmetic error when d has not       *)
(* exactly 2 elements or an element exceeds 0xFFFFFFFF; u128_from_dto(d)   *)
(* fails with one when d has not exactly 2 elements, an element has not    *)
(* exactly 2 elements, or one of the limbs exceeds 0xFFFFFFFF.             *)
C7_DtoShapeRejected ==
    /\ (call.op = "from_dto" /\ call.bits = U64_BITS
        /\ LET d == call.arg.dto64
           IN  \/ Len(d) # 2
               \/ \E i \in 1..Len(d) : Gt(d[i], MaxOf(U32_BITS))) =>
           (~ret.ok /\ ret.err = "ArithmeticError")
    /\ (call.op = "from_dto" /\ call.bits = U128_BITS
        /\ LET d == call.arg.dto128
           IN  \/ Len(d) # 2
               \/ \E i \in 1..Len(d) : Len(d[i]) # 2
               \/ \E i \in 1..Len(d) : \E j \in 1..Len(d[i]) :
                      Gt(d[i][j], MaxOf(U32_BITS))) =>
           (~ret.ok /\ ret.err = "ArithmeticError")

C7_Witness ==
    /\ call.op = "from_dto" /\ call.bits = U128_BITS
    /\ LET d == call.arg.dto128
       IN  /\ Len(d) = 2 /\ Len(d[1]) = 2 /\ Len(d[2]) = 2
           /\ Gt(d[2][1], MaxOf(U32_BITS))
    /\ ~ret.ok /\ ret.err = "ArithmeticError"

(* C8: for each width w and 0 <= v <= 2^w-1, uW_low(v) + uW_high(v) *      *)
(* 2^(w/2) = v with both halves in [0, 2^(w/2)-1]; for v > 2^w-1 both      *)
(* uW_high(v) and uW_low(v) fail with OverflowError.                       *)
C8_HighLowSplit ==
    call.op \in {"high", "low"} =>
        LET v == call.arg.int
            mine == [ok |-> ret.ok, err |-> ret.err, val |-> ret.val.int]
            lo == IF call.op = "low" THEN mine ELSE uW_low(call.bits, v)
            hi == IF call.op = "high" THEN mine ELSE uW_high(call.bits, v)
        IN  /\ Fits(v, call.bits) =>
                   /\ lo.ok /\ hi.ok
                   /\ Fits(lo.val, call.bits \div 2)
                   /\ Fits(hi.val, call.bits \div 2)
                   /\ Add(lo.val, TimesPow2(hi.val, call.bits \div 2)) = v
            /\ Gt(v, MaxOf(call.bits)) => (~ret.ok /\ ret.err = "OverflowError")

C8_Witness ==
    /\ call.op = "high" /\ call.bits = U128_BITS
    /\ Fits(call.arg.int, U128_BITS) /\ Len(call.arg.int.bytes) = U128_BYTES
    /\ ret.ok /\ Len(ret.val.int.bytes) = U64_BYTES

\* The operations that return a new Address.
Constructors ==
    {"Address", "create_from_raw_address", "create_from_encoded",
     "create_from_public_key", "from_dto", "from_catbuffer"}

(* C9 as claimed: every Address a constructor returns satisfies            *)
(* checksum(encoded[0:21]) = encoded[21:25]; input whose checksum does not *)
(* match is rejected.                                                      *)
C9_ChecksumInvariant ==
    (acall.op \in Constructors /\ aret.ok) =>
        LET e == encoded(aret.obj)
        IN  /\ e.ok
            /\ calculate_checksum(SubSeq(e.val, 1, 21)) = SubSeq(e.val, 22, 25)

(* C10 as claimed: the first of the 25 encoded bytes of every constructed  *)
(* Address is one of the four NetworkType values and equals the address's  *)
(* network_type.                                                           *)
C10_NetworkByteAgrees ==
    (acall.op \in Constructors /\ aret.ok) =>
        LET e == encoded(aret.obj)
        IN  /\ e.ok
            /\ e.val[1] \in NetworkType
            /\ e.val[1] = aret.obj.network_type

Normalized(text) == SelectSeq(upper(text), LAMBDA c : c # 45 /\ ~IsSpace(c))

(* C12 as claimed: Address(text) accepts every text that is 40 characters  *)
(* long once all dashes and all whitespace are removed and it is upper-    *)
(* cased, yielding the Address of that normalized text, and fails with     *)
(* ValueError on every other text.  Texts whose first character names no   *)
(* network are left aside: their lookup fails whatever the length.         *)
C12_TextNormalisation ==
    (acall.op = "Address"
     /\ Normalized(acall.text) # <<>>
     /\ <<Normalized(acall.text)[1]>> \in DOMAIN FROM_IDENTIFIER) =>
        LET n == Normalized(acall.text)
            a == Address(n)
        IN  IF Len(n) = 40
            THEN /\ aret.ok
                 /\ a.ok
                 /\ aret.obj = a.val
            ELSE /\ ~aret.ok
                 /\ aret.err = "ValueError"

(* C13 as claimed: for every Address a, pretty() is plain() cut into       *)
(* groups of 6 characters (the last of 4) with a dash between them, and    *)
(* Address(a.pretty()) has the plain text and the network type of a.       *)
C13_PrettyRoundTrip ==
    (acall.op = "pretty") =>
        LET a == aret.obj
            p == aret.rest
            back == Address(p)
        IN  /\ Len(p) = 46
            /\ \A i \in 1..46 :
                IF i % 7 = 0 THEN p[i] = 45
                ELSE p[i] = plain(a)[i - (i \div 7)]
            /\ back.ok
            /\ plain(back.val) = plain(a)
            /\ back.val.network_type = a.network_type

\* The first base32 character of the bytes names a network: the top five
\* bits of the first byte are those of N, T, M or S.
NamesNetwork(data) == <<B32Char(data[1] \div 8)>> \in DOMAIN FROM_IDENTIFIER

(* C14: to_catbuffer() returns the 25 bytes the address text encodes and   *)
(* nothing before them; from_catbuffer(data), for data of at least 25      *)
(* bytes that name a network, returns an address whose to_catbuffer() is   *)
(* data[:25] together with data[25:]; create_from_encoded of other than    *)
(* 25 bytes raises ValueError.                                             *)
C14_CatbufferIsEncoded ==
    /\ (acall.op = "to_catbuffer" /\ aret.ok) =>
            /\ Len(aret.rest) = 25
            /\ b32encode(aret.rest) = aret.obj.address
    /\ (acall.op = "from_catbuffer" /\ Len(acall.bytes) >= 25
        /\ NamesNetwork(acall.bytes)) =>
            LET c == Address_to_catbuffer(aret.obj)
            IN  /\ aret.ok
                /\ aret.rest = SubSeq(acall.bytes, 26, Len(acall.bytes))
                /\ c.ok
                /\ c.val = SubSeq(acall.bytes, 1, 25)
    /\ (acall.op = "create_from_encoded" /\ Len(acall.bytes) # 25) =>
            /\ ~aret.ok
            /\ aret.err = "ValueError"

C14_Witness ==
    /\ acall.op = "from_catbuffer"
    /\ aret.ok
    /\ aret.rest = <<1, 2, 3>>
    /\ Len(acall.bytes) = 28

(* C15 as claimed: identifier and create_from_identifier are inverse       *)
(* bijections between the four network types and N, T, M, S; and           *)
(* create_from_identifier, create_from_raw_address and from_dto fail with  *)
(* a lookup error (KeyError; for the enumeration, its ValueError) on every *)
(* character or value they do not recognize, never returning a network     *)
(* type for it.                                                            *)
C15_NetworkTypeBijection ==
    /\ (acall.op = "identifier") =>
            LET back == NetworkType_create_from_identifier(aret.rest)
            IN  /\ aret.rest \in {<<78>>, <<84>>, <<77>>, <<83>>}
                /\ back.ok
                /\ back.val = acall.nt
    /\ (acall.op = "NetworkType.create_from_identifier" /\ Len(acall.bytes) = 1) =>
            IF acall.bytes \in {<<78>>, <<84>>, <<77>>, <<83>>}
            THEN /\ aret.ok
                 /\ aret.obj.network_type \in NetworkType
                 /\ NetworkType_identifier(aret.obj.network_type) = acall.bytes
            ELSE /\ ~aret.ok
                 /\ aret.err = "KeyError"
    /\ (acall.op = "NetworkType.create_from_raw_address" /\ Len(acall.text) = 40) =>
            IF <<acall.text[1]>> \in {<<78>>, <<84>>, <<77>>, <<83>>}
            THEN /\ aret.ok
                 /\ NetworkType_identifier(aret.obj.network_type) = <<acall.text[1]>>
            ELSE /\ ~aret.ok
                 /\ aret.err = "KeyError"
    /\ (acall.op = "NetworkType.from_dto") =>
            IF acall.nt \in {104, 152, 96, 144}
            THEN /\ aret.ok
                 /\ aret.obj.network_type = acall.nt
            ELSE /\ ~aret.ok
                 /\ aret.err \in {"KeyError", "ValueError"}

\* The top-level and the embedded class of each transaction type in src.
TopLevelClass ==
    [MOSAIC_ALIAS |-> "MosaicAliasTransaction",
     MOSAIC_SUPPLY_CHANGE |-> "MosaicSupplyChangeTransaction"]

EmbeddedClass ==
    [MOSAIC_ALIAS |-> "MosaicAliasInnerTransaction",
     MOSAIC_SUPPLY_CHANGE |-> "MosaicSupplyChangeInnerTransaction"]

\* Every registration has run.
AllRegistered == \A m \in Modules : imported[m] = "done"

(* C16 as claimed: once every variant has registered, Transaction.HOOKS    *)
(* resolves a type to the decoders of the top-level class and              *)
(* InnerTransaction.HOOKS to those of the embedded class, and registering  *)
(* an embedded class leaves what Transaction.HOOKS resolves unchanged.     *)
C16_RegistriesIndependent ==
    /\ AllRegistered =>
        \A t \in DOMAIN TopLevelClass :
            /\ GetHook("Transaction", t).ok
            /\ GetHook("Transaction", t).val = Hooks(TopLevelClass[t])
            /\ GetHook("InnerTransaction", t).ok
            /\ GetHook("InnerTransaction", t).val = Hooks(EmbeddedClass[t])
    /\ (imported["mosaic_alias_transaction"] = "done") =>
            GetHook("Transaction", "MOSAIC_ALIAS").val = Hooks("MosaicAliasTransaction")
    /\ (imported["mosaic_supply_change_transaction"] = "done") =>
            GetHook("Transaction", "MOSAIC_SUPPLY_CHANGE").val
                = Hooks("MosaicSupplyChangeTransaction")

(* C17 as claimed: every entry of a registry is assigned at most once, and *)
(* no entry is assigned once a decode lookup has been made.                *)
C17_RegistryWrittenOnce ==
    /\ \A r \in Registries : \A t \in TransactionTypes : writes[r][t] <= 1
    /\ ~late

\* The first of the keys __anext__ looks for that the object has.
RECURSIVE FirstFrom(_, _)
FirstFrom(i, keys) ==
    IF i > Len(MessageKeys) THEN "none"
    ELSE IF MessageKeys[i] \in keys THEN MessageKeys[i]
    ELSE FirstFrom(i + 1, keys)

FirstKey(d) == FirstFrom(1, d.keys)

\* __anext__ has run on a message: it returned one or raised.
Delivered == anext.type # "" \/ ~anext.ok

(* C18: the outcome of __anext__ is the one of the first key present in    *)
(* the order transaction, block, status, meta, parentHash: a message       *)
(* under transaction is never returned; block gives ('block', BlockInfo);  *)
(* status gives ('status', TransactionStatusError); meta gives             *)
(* (meta.channelName, meta.hash); parentHash gives ('cosignature',         *)
(* CosignatureSignedTransaction); a key later in the order changes         *)
(* nothing.  A branch whose decoder misses a field raises KeyError and     *)
(* returns no message of another branch.                                   *)
C18_FirstKeyWins ==
    LET k == IF Delivered THEN FirstKey(received) ELSE "nothing received"
    IN  /\ (k = "transaction") => ~anext.ok
        /\ (k = "block") =>
                /\ anext.ok
                /\ anext.channel_name = "block"
                /\ anext.type = "BlockInfo"
        /\ (k = "status") =>
                IF anext.ok
                THEN anext.channel_name = "status" /\ anext.type = "TransactionStatusError"
                ELSE anext.err = "KeyError"
        /\ (k = "meta") =>
                IF anext.ok
                THEN /\ anext.channel_name = received.meta.channelName
                     /\ anext.type = "str"
                     /\ anext.value = received.meta.hash
                     /\ {"channelName", "hash"} \subseteq received.meta.keys
                ELSE anext.err = "KeyError"
        /\ (k = "parentHash") =>
                IF anext.ok
                THEN /\ anext.channel_name = "cosignature"
                     /\ anext.type = "CosignatureSignedTransaction"
                ELSE anext.err = "KeyError"

C18_Witness ==
    /\ {"block", "status", "meta", "parentHash", "hash", "deadline"} \subseteq received.keys
    /\ "transaction" \notin received.keys
    /\ anext.ok
    /\ anext.channel_name = "block"

(* C19 as claimed: a message whose object has the key transaction fails    *)
(* with NotImplementedError whatever else the object has or lacks.         *)
C19_TransactionNotImplemented ==
    (Delivered /\ "transaction" \in received.keys) =>
        /\ ~anext.ok
        /\ anext.err = "NotImplementedError"

(* C20: a message whose object has none of the keys transaction, block,    *)
(* status, meta, parentHash fails with the ValueError that reports the     *)
(* keys of the object; no message is returned for it.                      *)
C20_UnknownMessageRejected ==
    (Delivered
     /\ received.keys \cap {"transaction", "block", "status", "meta", "parentHash"} = {}) =>
        /\ ~anext.ok
        /\ anext.err = "ValueError"
        /\ anext.keys = received.keys

C20_Witness ==
    /\ received.keys = {"foo"}
    /\ ~anext.ok
    /\ anext.keys = {"foo"}

\* C21: successive __anext__ calls take one frame each, in arrival order:
\* the k-th outcome is the classification of the k-th frame handed to the
\* iterator, and every frame that arrived was either read once, in its
\* turn, or still waits on the socket, also after a call that failed.
IteratorFrames ==
    LET RECURSIVE pick(_)
        pick(k) ==
            IF k > Len(taken) THEN <<>>
            ELSE (IF taken[k] = "anext" THEN <<arrived[k]>> ELSE <<>>) \o pick(k + 1)
    IN pick(1)

Subscriptions == {k \in 1 .. Len(sent) : sent[k].message.request = "subscribe"}

(* C28: each subscription method sends a subscribe request for its own     *)
(* channel (new_block 'block', confirmed 'confirmedAdded/<address>',       *)
(* unconfirmed_added 'unconfirmedAdded/<address>', unconfirmed_removed     *)
(* 'unconfirmedRemoved/<address>', aggregate_bonded_added                  *)
(* 'partialAdded/<address>', aggregate_bonded_removed                      *)
(* 'partialRemoved/<address>', status 'status/<address>', cosignature_added*)
(* 'cosignature/<address>'), and no two methods subscribe to the same      *)
(* channel for the same address.                                           *)
C28_OwnChannel ==
    /\ \A k \in Subscriptions :
        \E address \in SessionAddresses :
            sent[k].message.channel = Subscription_own(sent[k].method, address)
    /\ \A j, k \in Subscriptions :
        sent[j].method # sent[k].method
            => sent[j].message.channel # sent[k].message.channel

(* C29: over any interleaving of subscribe, unsubscribe and iteration the  *)
(* uid is read from the socket at most once and every request carries it; *)
(* the uid lookup takes no frame but the uid frame of the server, and the  *)
(* uid frame is never handed to the iterator.                              *)
C29_UidReadOnce ==
    /\ Cardinality({k \in 1 .. Len(taken) : taken[k] = "uid"}) <= 1
    /\ \A k \in 1 .. Len(sent) : sent[k].message.uid = UidFrame.uid
    /\ \A k \in 1 .. Len(taken) :
        /\ taken[k] = "uid" => arrived[k] = UidFrame
        /\ taken[k] = "anext" => arrived[k] # UidFrame

\* C22: an aggregate built by create_complete from inner transactions
\* [A, B] and signed by sign_transaction_with_cosignatories keeps their
\* order: the payload holds the bytes of A immediately followed by the
\* bytes of B, and the cosignatures come after all inner transactions, in
\* the order the cosigners were given.
HeaderSize == 4 + 64 + 32 + 2 + 2 + 8 + 8 + 4

\* Where the k-th inner transaction begins in a signed payload.
RECURSIVE InnerStart(_, _)
InnerStart(inner, k) ==
    IF k = 1 THEN HeaderSize + 1
    ELSE InnerStart(inner, k - 1) + Len(Embedded(inner[k - 1]))

C23_CreateKeepsArguments ==
    tcall.op = "MosaicSupplyChangeTransaction.create" =>
        /\ tret.ok
        /\ tret.obj.type = "MOSAIC_SUPPLY_CHANGE"
        /\ tret.obj.version = TransactionVersion_MOSAIC_SUPPLY_CHANGE
        /\ tret.obj.signature = ""
        /\ tret.obj.deadline = tcall.args.deadline
        /\ tret.obj.network_type = tcall.args.network_type
        /\ tret.obj.mosaic_id = tcall.args.mosaic_id
        /\ tret.obj.direction = tcall.args.direction
        /\ tret.obj.delta = tcall.args.delta
        /\ tret.obj.max_fee = tcall.args.max_fee

\* C24: MosaicAliasTransaction.to_aggregate(signer) returns a
\* MosaicAliasInnerTransaction that has the signer, no signature, and the
\* action_type, namespace_id and mosaic_id of the transaction, which is
\* itself left as it was.
C24_ToAggregate ==
    tcall.op = "to_aggregate" =>
        /\ tret.ok
        /\ tret.obj.cls = "MosaicAliasInnerTransaction"
        /\ tret.obj.signer = tcall.args.signer
        /\ tret.obj.signature = ""
        /\ tret.obj.action_type = tcall.self.action_type
        /\ tret.obj.namespace_id = tcall.self.namespace_id
        /\ tret.obj.mosaic_id = tcall.self.mosaic_id
        /\ tcall.self.cls = "MosaicAliasTransaction"
        /\ tret.obj # tcall.self

\* A signed transaction was embedded under another signer.
C24_Witness ==
    /\ tcall.op = "to_aggregate"
    /\ tcall.self.signature # ""
    /\ tcall.self.signer # tcall.args.signer
    /\ tret.obj.signer = tcall.args.signer

\* C25: to_catbuffer_specific of a mosaic alias or mosaic supply change
\* transaction gives exactly catbuffer_size_specific() = 17 bytes, and
\* load_catbuffer_specific of these bytes followed by any rest restores
\* the fields and returns exactly the rest.
SpecificFields(obj) ==
    <<obj.mosaic_id, obj.direction, obj.delta, obj.action_type, obj.namespace_id>>

C25_CatbufferRoundTrip ==
    tcall.op = "to_catbuffer_specific" =>
        /\ tret.ok
        /\ Len(tret.bytes) = catbuffer_size_specific(tret.obj)
        /\ Len(tret.bytes) = 17
        /\ \A n \in 0 .. RestBytes :
            LET back == load_catbuffer_specific(
                            Blank(tret.obj.cls, tret.obj.type), tret.bytes \o Rest(n))
            IN  /\ back.ok
                /\ SpecificFields(back.obj) = SpecificFields(tret.obj)
                /\ back.bytes = Rest(n)

\* C26: load_catbuffer_specific of a buffer shorter than 17 bytes fails
\* and sets no field.
C26_TruncatedRejected ==
    (tcall.op = "load_catbuffer_specific" /\ Len(tcall.data) < 17) =>
        /\ ~tret.ok
        /\ tret.obj = tcall.self

\* C27: to_dto_specific of a mosaic supply change transaction has exactly
\* the keys mosaicId, direction and delta, of a balance change receipt the
\* keys account, mosaicId and amount, the 64-bit values as [low, high];
\* validate_dto_specific accepts the DTO and load_dto_specific restores
\* the fields from it.
DtoKeys(cls) ==
    IF cls = "MosaicSupplyChangeTransaction" THEN {"mosaicId", "direction", "delta"}
    ELSE {"account", "mosaicId", "amount"}

C27_DtoRoundTrip ==
    tcall.op = "to_dto_specific" =>
        /\ tret.ok
        /\ tret.dto.keys = DtoKeys(tret.obj.cls)
        /\ tret.dto.mosaicId = <<ModPow(tret.obj.mosaic_id.int, 32),
                                 DivPow(tret.obj.mosaic_id.int, 32)>>
        /\ validate_dto_specific(tret.obj.cls, tret.dto)
        /\ LET back == load_dto_specific(Blank(tret.obj.cls, tret.obj.type), tret.dto)
           IN  /\ back.ok
               /\ SpecificFields(back.obj) = SpecificFields(tret.obj)
               /\ back.obj.account = tret.obj.account
               /\ back.obj.amount = tret.obj.amount

\* The frames of the stack that run fn.
FramesOf(fn) == {k \in 1..Len(stack) : stack[k].fn = fn}

====
